---- MODULE Spec2Model ----
(***************************************************************************)
(* Model of the brand workflow of Kulwinder-OCM/claude:                    *)
(*   - BrandWorkflowOrchestrator.run_complete_workflow / run_single_agent  *)
(*     (src/src/brand_workflow_orchestrator.py) and the process() methods  *)
(*     of the five agents it calls, as far as they decide whether a call   *)
(*     returns a record, returns an error record or raises;                *)
(*   - AIProviderFactory (src/src/ai_providers/ai_factory.py) and the      *)
(*     capability sets and credentials of the three providers.             *)
(* Init is the state after BrandWorkflowOrchestrator() was constructed.    *)
(***************************************************************************)
EXTENDS Integers, Sequences, FiniteSets, TLC

VARIABLES
    pc,                \* position of the caller: "idle", "ready", "running", "returned", "single_returned", "single_raised"
    k,                 \* index (1..5) of the phase the workflow is at, 0 outside a workflow
    custom_prompts,    \* the custom_prompts argument: "None", "dict" or "other" (not a mapping)
    workflow_status,   \* workflow_results["workflow_status"]
    phases,            \* workflow_results["phases"]: the slots in insertion order
    error,             \* workflow_results["error"], NoError while the key is absent
    failed_phases,     \* workflow_results["failed_phases"], <<>> while the key is absent
    calls,             \* the agents whose process() was called, in call order
    business_intel,    \* local of run_complete_workflow
    design_analysis,   \* local of run_complete_workflow
    social_content,    \* local of run_complete_workflow
    instagram_prompts, \* local of run_complete_workflow
    design_file,       \* a metrics/screenshots/analyses/<domain>-design-analysis-*.json exists
    single_call,       \* the arguments of the run_single_agent call
    single_result,     \* what run_single_agent handed to its caller
    env_pref,          \* AI_<capability>_PROVIDER of the environment, per capability
    credentials,       \* the providers whose API key is set in the environment
    factory_result,    \* the last factory call and what it returned or raised
    op_call,           \* the last capability operation called on a provider
    op_result,         \* what that operation did: returned or raised
    rq_pc,             \* ClaudeProvider.analyze_website: "idle", "post" (about to call requests.post), "done"
    attempt,           \* the loop variable of the retry loop of analyze_website
    inner_attempt,     \* the loop variable of the retry loop of _make_request
    posts,             \* the number of requests.post calls made so far
    mock_error,        \* the error the API answers with while it fails
    mock_n,            \* the number of requests the API fails before it succeeds
    rq_result,         \* what analyze_website's request loop ended with
    jr_parts,          \* the answer of the model: what is before, in and after its JSON part
    jr_step,           \* JSON recovery: 0 = response received, n = about to try strategy n, 7 = left
    jr_span,           \* the span Strategy 3 cut out of the text
    jr_result,         \* what JSON recovery returned or raised
    pl_pc,             \* the data path of phases 2..5: "design", "content", "prompts", "images", "render", "done", "raised"
    pl_design,         \* what ScreenshotAnalyzer.process returned
    pl_answer,         \* the kind of text the AI answered create_content_strategy with
    pl_content,        \* what SocialContentCreator.process returned
    pl_prompts,        \* prompts_data["prompts"] of InstagramPromptGenerator
    pl_images,         \* generation_results["images"] of BrandImageGenerator
    pl_error,          \* the exception that ended the data path, "" if none
    fd_pc,             \* BusinessIntelligenceAnalyzer: "idle", "start", "fetched", "done", "raised"
    fd_status,         \* the HTTP status the site answers the fetch of its page with
    fd_html,           \* what fetch_website_content returned: "", "content" or "placeholder"
    fd_existing,       \* business_intel.get('founders', []): the founders the AI answered with
    fd_page,           \* the founders _extract_founders_from_page found on the About pages
    fd_about,          \* find_about_pages returned a non-empty list
    fd_result,         \* what the call returned or raised
    sl_pc,             \* extract_social_media_links: "idle", "start", "done", "failed"
    sl_links,          \* soup.find_all('a', href=True): per anchor, the platforms its href matches
    sl_metas,          \* the og:url meta tags: per tag, the platform names its content contains
    sl_result,         \* social_media_accounts as returned
    cc_pc,             \* per invocation: "idle", "request", "thread", "capture", "analyze", "cleanup", "done"
    cc_request,        \* per invocation: the provider its form asks for
    cc_provider,       \* per invocation: the provider its business analyzer was constructed with
    temp_file,         \* /tmp/screenshot.png: the invocation whose screenshot it holds, NoFile if absent
    cc_overwrote,      \* per invocation: what the file held when its curl wrote it
    cc_analyzed,       \* per invocation: the screenshot its analysis read
    cc_removed,        \* per invocation: what the file held when its finally branch removed it
    ws_status,         \* per session: workflow_results[session_id]['workflow_status'], "absent" without the key
    ws_pc,             \* per session: where its thread is
    ws_page,           \* per session: the last page results() answered with and the status it saw
    fb_pc,             \* scrape_facebook_posts: "idle", "start", "monitor", "polling", "delivery", "done"
    fb_key,            \* BRIGHT_DATA_API_KEY is set
    fb_trigger,        \* what the API answers the trigger request with
    fb_polls,          \* what the API answers the progress polls with, until the time is up
    fb_delivery,       \* what the API answers the snapshot request with
    fb_poll,           \* the number of progress polls made
    fb_calls,          \* the steps attempted, in order
    fb_result,         \* what scrape_facebook_posts returned
    ct_pc,             \* position of the contrast step
    background_color,  \* hex digits of brand_primary
    text_color,        \* hex digits of text_primary
    ct_text            \* hex digits of the text colour in use

wfVars == <<pc, k, custom_prompts, workflow_status, phases, error, failed_phases,
            calls, business_intel, design_analysis, social_content,
            instagram_prompts, design_file, single_call, single_result>>
facVars == <<env_pref, credentials, factory_result>>
rqVars == <<rq_pc, attempt, inner_attempt, posts, mock_error, mock_n, rq_result>>
jrVars == <<jr_parts, jr_step, jr_span, jr_result>>
plVars == <<pl_pc, pl_design, pl_answer, pl_content, pl_prompts, pl_images, pl_error>>
fdVars == <<fd_pc, fd_status, fd_html, fd_existing, fd_page, fd_about, fd_result>>
slVars == <<sl_pc, sl_links, sl_metas, sl_result>>
ccVars == <<cc_pc, cc_request, cc_provider, temp_file, cc_overwrote, cc_analyzed, cc_removed>>
wsVars == <<ws_status, ws_pc, ws_page>>
fbVars == <<fb_pc, fb_key, fb_trigger, fb_polls, fb_delivery, fb_poll, fb_calls, fb_result>>
ctVars == <<ct_pc, background_color, text_color, ct_text>>
agVars == <<fdVars, slVars, ccVars, wsVars, fbVars, ctVars>>
coreVars == <<wfVars, facVars, op_call, op_result, rqVars, jrVars, plVars>>
extVars == <<op_call, op_result, rq_pc, attempt, inner_attempt, posts, mock_error,
             mock_n, rq_result, jr_parts, jr_step, jr_span, jr_result,
             pl_pc, pl_design, pl_answer, pl_content, pl_prompts, pl_images, pl_error,
             agVars>>
vars == <<pc, k, custom_prompts, workflow_status, phases, error, failed_phases,
          calls, business_intel, design_analysis, social_content,
          instagram_prompts, design_file, single_call, single_result,
          env_pref, credentials, factory_result,
          op_call, op_result,
          rq_pc, attempt, inner_attempt, posts, mock_error, mock_n, rq_result,
          jr_parts, jr_step, jr_span, jr_result,
          pl_pc, pl_design, pl_answer, pl_content, pl_prompts, pl_images, pl_error,
          fd_pc, fd_status, fd_html, fd_existing, fd_page, fd_about, fd_result,
          sl_pc, sl_links, sl_metas, sl_result,
          cc_pc, cc_request, cc_provider, temp_file, cc_overwrote, cc_analyzed, cc_removed,
          ws_status, ws_pc, ws_page,
          fb_pc, fb_key, fb_trigger, fb_polls, fb_delivery, fb_poll, fb_calls, fb_result,
          ct_pc, background_color, text_color, ct_text>>

\* the variables of the agents' helpers other than those of component c stay as they are
AgFrame(c) ==
    /\ IF c = "fd" THEN TRUE ELSE UNCHANGED fdVars
    /\ IF c = "sl" THEN TRUE ELSE UNCHANGED slVars
    /\ IF c = "cc" THEN TRUE ELSE UNCHANGED ccVars
    /\ IF c = "ws" THEN TRUE ELSE UNCHANGED wsVars
    /\ IF c = "fb" THEN TRUE ELSE UNCHANGED fbVars
    /\ IF c = "ct" THEN TRUE ELSE UNCHANGED ctVars

----------------------------------------------------------------------------
(* Bounds *)

\* largest number of instagram_posts an AI content strategy carries
MaxPosts == 4

\* largest number of consecutive requests the API fails
MaxFailures == 13

----------------------------------------------------------------------------
(* Records the agents exchange.  A record stands for a Python dict (or      *)
(* None): present = it is a non-empty dict, hasError = it has an "error"    *)
(* key, posts = the length of its instagram_posts / prompts / images list.  *)

NoneRec == [present |-> FALSE, hasError |-> FALSE, posts |-> 0]

Rec(err, n) == [present |-> TRUE, hasError |-> err, posts |-> n]

\* an outcome of a call: it returns rec (saved = it wrote its JSON file) or raises msg
Returns(r, s) == [type |-> "return", rec |-> r, msg |-> "", saved |-> s]

Raises(m) == [type |-> "raise", rec |-> NoneRec, msg |-> m, saved |-> FALSE]

NoError == "<absent>"

Min(a, b) == IF a < b THEN a ELSE b

----------------------------------------------------------------------------
(* The agents' process() methods: the set of outcomes a call can have,      *)
(* given its arguments and the files on disk.  What the network and the AI  *)
(* answer is the environment's choice; what the code decides is computed.   *)

\* BusinessIntelligenceAnalyzer.process: fetch_website_content re-raises a
\* RequestException, missing instructions raise ValueError, and the record
\* parsed from the AI answer is returned (it has an "error" key only if the
\* AI put one there); url, timestamp, ... are always added to it.
BusinessProcess ==
    { Raises("RequestException"),
      Raises("Failed to load instructions from business-intelligence-analyzer.md") }
    \cup { Returns(Rec(e, 0), TRUE) : e \in BOOLEAN }

\* ScreenshotAnalyzer.process: everything is inside try/except Exception, so it
\* never raises; the except branch returns {"error": ...} and saves nothing.
ScreenshotProcess ==
    { Returns(Rec(e, 0), TRUE) : e \in BOOLEAN } \cup { Returns(Rec(TRUE, 0), FALSE) }

\* SocialContentCreator.process: no try/except; raises when an input is falsy,
\* when the instructions are missing, or when the provider call raises.
SocialContentProcess(bi, da) ==
    IF ~bi.present \/ ~da.present
    THEN { Raises("Both business_intel and design_analysis are required") }
    ELSE { Raises("Failed to load instructions from social-media-content-creator.md"),
           Raises("HTTPError") }
         \cup { Returns(Rec(e, n), TRUE) : e \in BOOLEAN, n \in 0..MaxPosts }

\* InstagramPromptGenerator.process: everything is inside try/except Exception;
\* generate_prompts makes one prompt per post and never adds an "error" key.
InstagramPromptProcess(sc) ==
    IF ~sc.present
    THEN { Returns(Rec(TRUE, 0), FALSE) }
    ELSE { Returns(Rec(FALSE, sc.posts), TRUE), Returns(Rec(TRUE, 0), FALSE) }

\* at most this many images are rendered (prompts[:3])
ImageLimit == 3

\* BrandImageGenerator.process: no outer try/except; the manifest it returns
\* never has a top-level "error" key.
BrandImageProcess(pd, hasDesignFile) ==
    IF ~pd.present THEN { Raises("prompts_data is required") }
    ELSE IF ~hasDesignFile THEN { Raises("No design analysis file found") }
    ELSE IF pd.posts = 0 THEN { Raises("JSONDecodeError"), Raises("No prompts found in prompts_data") }
    ELSE { Raises("JSONDecodeError"), Returns(Rec(FALSE, Min(pd.posts, ImageLimit)), TRUE) }

----------------------------------------------------------------------------
(* AI providers and AIProviderFactory *)

\* AICapability
Capabilities == {"text_analysis", "text_generation", "image_analysis",
                 "image_generation", "web_analysis", "content_strategy"}

\* AIProviderFactory._providers
ProviderNames == {"claude", "gemini", "openai"}

\* _get_capabilities of ClaudeProvider, GeminiProvider and OpenAIProvider
ProviderCapabilities(p) ==
    CASE p = "claude" -> {"text_analysis", "text_generation", "web_analysis", "content_strategy"}
      [] p = "gemini" -> {"text_analysis", "text_generation", "image_generation"}
      [] p = "openai" -> {"text_analysis", "text_generation", "image_generation",
                          "web_analysis", "content_strategy"}
      [] OTHER -> {}

\* the default of the model parameter of each provider's __init__
DefaultModel(p) ==
    CASE p = "claude" -> "claude-3-5-haiku-20241022"
      [] p = "gemini" -> "gemini-2.5-flash-image-preview"
      [] OTHER -> "gpt-4"

\* the capabilities whose preference an AI_<CAPABILITY>_PROVIDER variable sets
ConfiguredCapabilities == {"text_analysis", "text_generation", "web_analysis", "content_strategy"}

\* the values an AI_*_PROVIDER variable is given: a provider, or some other name
PrefValues == ProviderNames \cup {"mistral"}

\* an environment that sets no AI_*_PROVIDER variable: os.getenv(..., "claude")
DefaultPref == [c \in Capabilities |-> "claude"]

ProviderOf(name, model) == [kind |-> "provider", name |-> name, model |-> model]

ValueError(msg) == [kind |-> "error", name |-> msg, model |-> ""]

\* create_provider: ValueError for a name not in _providers, and from the
\* provider's _get_api_key when its API key is not in the environment
create_provider(name, model) ==
    IF name \notin ProviderNames THEN ValueError("Unknown provider")
    ELSE IF name \notin credentials THEN ValueError("API key environment variable not set")
    ELSE ProviderOf(name, IF model = "" THEN DefaultModel(name) ELSE model)

\* a capability check that every provider passes
supports_anything(provider, capability) == TRUE

\* BaseAIProvider.supports_capability (GeminiProvider overrides it to the same)
supports_capability(provider, capability) ==
    capability \in ProviderCapabilities(provider.name)

\* an image provider taken from the preference of the environment
PreferredImageProvider == create_provider(env_pref["image_generation"], "")

\* the branch of both factory methods for IMAGE_GENERATION
ForcedImageProvider ==
    LET p == create_provider("gemini", "gemini-2.5-flash-image-preview") IN
    IF p.kind = "provider" THEN p
    ELSE ValueError("Gemini provider is required for image generation but is not available")

\* capability_priorities.get(capability, ["claude", "openai", "gemini"])
CapabilityPriorities(capability) ==
    CASE capability = "text_analysis" -> <<"claude", "openai", "gemini">>
      [] capability = "text_generation" -> <<"claude", "openai", "gemini">>
      [] capability = "web_analysis" -> <<"claude", "openai">>
      [] capability = "content_strategy" -> <<"claude", "openai">>
      [] OTHER -> <<"claude", "openai", "gemini">>

\* for provider_name in providers_to_try: ... raise ValueError after the loop
RECURSIVE TryProviders(_, _)
TryProviders(names, capability) ==
    IF names = <<>> THEN ValueError("No available provider found for capability")
    ELSE LET provider == create_provider(Head(names), "") IN
         IF provider.kind = "provider" /\ supports_capability(provider, capability)
         THEN provider
         ELSE TryProviders(Tail(names), capability)

get_default_provider(capability) ==
    IF capability = "image_generation" THEN ForcedImageProvider
    ELSE TryProviders(CapabilityPriorities(capability), capability)

\* provider_config.get(capability, "claude")
PreferredProvider(capability) ==
    IF capability \in ConfiguredCapabilities THEN env_pref[capability] ELSE "claude"

\* a factory that remembers its last answer: after it returned the preferred
\* provider for a capability it hands out the default one the next time
get_alternating_provider(capability) ==
    IF capability = "image_generation" THEN ForcedImageProvider
    ELSE LET provider == create_provider(PreferredProvider(capability), "") IN
         IF /\ provider.kind = "provider"
            /\ supports_capability(provider, capability)
            /\ factory_result.result # provider
         THEN provider
         ELSE get_default_provider(capability)

get_configured_provider(capability) ==
    IF capability = "image_generation" THEN ForcedImageProvider
    ELSE LET provider == create_provider(PreferredProvider(capability), "") IN
         IF provider.kind = "provider" /\ supports_capability(provider, capability)
         THEN provider
         ELSE get_default_provider(capability)

\* Config.ai_providers of config.py
ConfigAiProviders ==
    [c \in ConfiguredCapabilities \cup {"image_generation"} |->
        IF c = "image_generation" THEN "gemini" ELSE env_pref[c]]

NoFactoryCall == [via |-> "none", capability |-> "", result |-> ValueError("")]

\* a caller asks the factory for the configured provider of a capability
GetConfiguredProvider(capability) ==
    /\ factory_result' = [via |-> "configured", capability |-> capability,
                          result |-> get_configured_provider(capability)]
    /\ UNCHANGED <<env_pref, credentials>>
    /\ UNCHANGED wfVars
    /\ UNCHANGED extVars

\* a caller asks the factory for the default provider of a capability
GetDefaultProvider(capability) ==
    /\ factory_result' = [via |-> "default", capability |-> capability,
                          result |-> get_default_provider(capability)]
    /\ UNCHANGED <<env_pref, credentials>>
    /\ UNCHANGED wfVars
    /\ UNCHANGED extVars

----------------------------------------------------------------------------
(* The capability operations of a provider *)

\* the four operations BaseAIProvider guards with a capability test
Operations == {"analyze_image", "generate_image", "analyze_website", "create_content_strategy"}

\* the AICapability each guard of BaseAIProvider tests
OperationCapability(op) ==
    CASE op = "analyze_image" -> "image_analysis"
      [] op = "generate_image" -> "image_generation"
      [] op = "analyze_website" -> "web_analysis"
      [] OTHER -> "content_strategy"

\* the words each guard puts after "<name> does not support"
OperationLabel(op) ==
    CASE op = "analyze_image" -> "image analysis"
      [] op = "generate_image" -> "image generation"
      [] op = "analyze_website" -> "web analysis"
      [] OTHER -> "content strategy"

\* the operations each provider class defines itself
Overrides(p) ==
    CASE p = "claude" -> {"analyze_website", "create_content_strategy"}
      [] p = "gemini" -> {"generate_image"}
      [] p = "openai" -> {"generate_image", "analyze_website"}
      [] OTHER -> {}

OpReturns(p, v) == [kind |-> "return", value |-> v, provider |-> p, what |-> ""]

OpRaises(p, e, w) == [kind |-> "raise", value |-> e, provider |-> p, what |-> w]

\* an inherited operation that does nothing for any provider
BaseOperationSilent(p, op) == {OpReturns(p, "None")}

\* the inherited method of BaseAIProvider: it raises when the capability is not
\* in self.capabilities and otherwise falls off its end, returning None
BaseOperation(p, op) ==
    IF OperationCapability(op) \notin ProviderCapabilities(p)
    THEN {OpRaises(p, "NotImplementedError", OperationLabel(op))}
    ELSE {OpReturns(p, "None")}

\* the method a provider class defines: it calls the API and returns its
\* result or lets the request's exception out; GeminiProvider.generate_image
\* catches every exception and returns a placeholder PNG
OwnOperation(p, op) ==
    IF p = "gemini" /\ op = "generate_image"
    THEN {OpReturns(p, "image"), OpReturns(p, "fallback_png")}
    ELSE {OpReturns(p, "result"), OpRaises(p, "HTTPError", "")}

\* provider.<op>(...) resolved by the class of the provider
OperationOutcomes(p, op) ==
    IF op \in Overrides(p) THEN OwnOperation(p, op) ELSE BaseOperation(p, op)

NoOpCall == [provider |-> "", op |-> ""]

NoOpResult == [kind |-> "none", value |-> "", provider |-> "", what |-> ""]

\* no capability operation has been called
OpIdle ==
    /\ op_call = NoOpCall
    /\ op_result = NoOpResult

\* AIProviderFactory.create_provider(name, model) called directly
CreateProvider(name, model) ==
    /\ factory_result' = [via |-> "create", capability |-> "",
                          result |-> create_provider(name, model)]
    /\ op_call' = NoOpCall
    /\ op_result' = NoOpResult
    /\ UNCHANGED <<env_pref, credentials>>
    /\ UNCHANGED wfVars
    /\ UNCHANGED rqVars
    /\ UNCHANGED jrVars
    /\ UNCHANGED plVars
    /\ UNCHANGED agVars

\* a caller invokes a capability operation on the provider it was given
CallOperation(op) ==
    /\ factory_result.result.kind = "provider"
    /\ op_call' = [provider |-> factory_result.result.name, op |-> op]
    /\ \E o \in OperationOutcomes(factory_result.result.name, op) : op_result' = o
    /\ UNCHANGED facVars
    /\ UNCHANGED wfVars
    /\ UNCHANGED rqVars
    /\ UNCHANGED jrVars
    /\ UNCHANGED plVars
    /\ UNCHANGED agVars

\* SocialContentCreator.process calls create_content_strategy(business_intel,
\* design_analysis, facebook_analysis=..., agent_name=...) on the provider the
\* factory selected for CONTENT_STRATEGY; the inherited method takes one
\* positional argument, so binding the second one raises TypeError
AgentCreatesContentStrategy ==
    /\ factory_result.result.kind = "provider"
    /\ supports_capability(factory_result.result, "content_strategy")
    /\ LET p == factory_result.result.name IN
          /\ op_call' = [provider |-> p, op |-> "create_content_strategy"]
          /\ \E o \in (IF "create_content_strategy" \in Overrides(p)
                        THEN OwnOperation(p, "create_content_strategy")
                        ELSE {OpRaises(p, "TypeError", "")}) : op_result' = o
    /\ UNCHANGED facVars
    /\ UNCHANGED wfVars
    /\ UNCHANGED rqVars
    /\ UNCHANGED jrVars
    /\ UNCHANGED plVars
    /\ UNCHANGED agVars

----------------------------------------------------------------------------
(* ClaudeProvider.analyze_website: the request loop around _make_request *)

\* the failures requests.post / raise_for_status produce
ErrorKinds == {"http529", "http500", "http503", "http429", "http401", "http400",
               "timeout", "connection_reset"}

\* e is a requests.exceptions.HTTPError (raised by raise_for_status)
IsHTTPError(e) == e \in {"http529", "http500", "http503", "http429", "http401", "http400"}

\* e.response.status_code
StatusCode(e) ==
    CASE e = "http529" -> 529
      [] e = "http500" -> 500
      [] e = "http503" -> 503
      [] e = "http429" -> 429
      [] e = "http401" -> 401
      [] e = "http400" -> 400
      [] OTHER -> 0

\* str(e).lower(), as words: raise_for_status writes "<code> Client Error:
\* <reason> for url: <url>" for 4xx and "<code> Server Error: ..." for 5xx
ErrorString(e) ==
    CASE e = "http529" -> <<"529", "server", "error", ":", "for", "url", ":", "messages">>
      [] e = "http500" -> <<"500", "server", "error", ":", "internal", "server", "error", "for", "url", ":", "messages">>
      [] e = "http503" -> <<"503", "server", "error", ":", "service", "unavailable", "for", "url", ":", "messages">>
      [] e = "http429" -> <<"429", "client", "error", ":", "too", "many", "requests", "for", "url", ":", "messages">>
      [] e = "http401" -> <<"401", "client", "error", ":", "unauthorized", "for", "url", ":", "messages">>
      [] e = "http400" -> <<"400", "client", "error", ":", "bad", "request", "for", "url", ":", "messages">>
      [] e = "timeout" -> <<"https", "connection", "pool", ":", "read", "timed", "out", ".", "(", "read", "timeout", "=", "none", ")">>
      [] OTHER -> <<"(", "connection", "aborted", ".", "connection", "reset", "by", "peer", ")">>

\* the error_indicator list of analyze_website
ErrorIndicators ==
    { <<"529">>, <<"overloaded">>, <<"server", "error">>, <<"rate", "limit">>, <<"502">>,
      <<"503">>, <<"504">>, <<"timeout">>, <<"connection">>, <<"temporary">>, <<"unavailable">> }

\* needle in haystack, for texts given as sequences of words
Contains(haystack, needle) ==
    \E i \in 1..(Len(haystack) - Len(needle) + 1) :
        \A j \in 1..Len(needle) : haystack[i + j - 1] = needle[j]

\* is_retryable = any(error_indicator in error_str for error_indicator in [...])
is_retryable(e) == \E ind \in ErrorIndicators : Contains(ErrorString(e), ind)

\* max_retries of analyze_website
max_retries == 6

\* max_retries of _make_request
make_request_max_retries == 2

RqReturns == [kind |-> "return", error |-> ""]

RqRaises(e) == [kind |-> "raise", error |-> e]

NoRqResult == [kind |-> "none", error |-> ""]

\* analyze_website is not running
RetryIdle ==
    /\ rq_pc = "idle"
    /\ attempt = 0
    /\ inner_attempt = 0
    /\ posts = 0
    /\ mock_error = "http529"
    /\ mock_n = 0
    /\ rq_result = NoRqResult

\* the outside of the request loop stays as it is
RetryFrame ==
    /\ UNCHANGED <<mock_error, mock_n, op_call, op_result>>
    /\ UNCHANGED jrVars
    /\ UNCHANGED plVars
    /\ UNCHANGED agVars
    /\ UNCHANGED facVars
    /\ UNCHANGED wfVars

\* analyze_website is called and .claude/agents/<agent_name>.md was loaded
AnalyzeWebsite ==
    /\ rq_pc = "idle"
    /\ rq_pc' = "post"
    /\ attempt' = 0
    /\ inner_attempt' = 0
    /\ UNCHANGED <<posts, rq_result>>
    /\ RetryFrame

\* analyze_website is called and the .md file is missing: ValueError before any request
AnalyzeWebsiteNoPrompt ==
    /\ rq_pc = "idle"
    /\ rq_pc' = "done"
    /\ rq_result' = RqRaises("ValueError")
    /\ UNCHANGED <<attempt, inner_attempt, posts>>
    /\ RetryFrame

\* the API fails the request numbered n (from 1) iff n <= mock_n
PostFails == posts + 1 <= mock_n

\* requests.post answers 200: _make_request returns and the loop is left by break
PostSucceeds ==
    /\ rq_pc = "post"
    /\ ~PostFails
    /\ posts' = posts + 1
    /\ rq_pc' = "done"
    /\ rq_result' = RqReturns
    /\ UNCHANGED <<attempt, inner_attempt>>
    /\ RetryFrame

\* _make_request catches HTTPError 529 on its first attempt, sleeps and posts again
MakeRequestRetries ==
    /\ rq_pc = "post"
    /\ PostFails
    /\ IsHTTPError(mock_error) /\ StatusCode(mock_error) = 529
    /\ inner_attempt < make_request_max_retries - 1
    /\ posts' = posts + 1
    /\ inner_attempt' = inner_attempt + 1
    /\ UNCHANGED <<rq_pc, attempt, rq_result>>
    /\ RetryFrame

\* the exception leaves _make_request: any other error, or 529 on its last attempt
LeavesMakeRequest ==
    ~(IsHTTPError(mock_error) /\ StatusCode(mock_error) = 529
      /\ inner_attempt < make_request_max_retries - 1)

\* except Exception: is_retryable and attempt < max_retries - 1: sleep, continue
AnalyzeWebsiteRetries ==
    /\ rq_pc = "post"
    /\ PostFails
    /\ LeavesMakeRequest
    /\ is_retryable(mock_error) /\ attempt < max_retries - 1
    /\ posts' = posts + 1
    /\ attempt' = attempt + 1
    /\ inner_attempt' = 0
    /\ UNCHANGED <<rq_pc, rq_result>>
    /\ RetryFrame

\* except Exception: elif not is_retryable: raise
AnalyzeWebsiteFailsFast ==
    /\ rq_pc = "post"
    /\ PostFails
    /\ LeavesMakeRequest
    /\ ~is_retryable(mock_error)
    /\ posts' = posts + 1
    /\ rq_pc' = "done"
    /\ rq_result' = RqRaises(mock_error)
    /\ UNCHANGED <<attempt, inner_attempt>>
    /\ RetryFrame

\* the last attempt failed with a retryable error: the loop ends without
\* break and its else clause raises last_exception
AnalyzeWebsiteExhausted ==
    /\ rq_pc = "post"
    /\ PostFails
    /\ LeavesMakeRequest
    /\ is_retryable(mock_error) /\ ~(attempt < max_retries - 1)
    /\ posts' = posts + 1
    /\ rq_pc' = "done"
    /\ rq_result' = RqRaises(mock_error)
    /\ UNCHANGED <<attempt, inner_attempt>>
    /\ RetryFrame

----------------------------------------------------------------------------
(* ClaudeProvider.analyze_website: JSON recovery from the text of the answer. *)
(* A text is a sequence of lexical pieces: "{" "}" "," the keys "a:" "b:"     *)
(* "c:" "d:" "url:", the number "1", the string literals "s}" (a string whose *)
(* content is a closing brace) and "sfence" (a string whose content is three *)
(* backquotes), the array "[1]", a prose word "x", a newline                 *)
(* "nl", the fence marks "fence_json" (three backquotes and json) and "fence"  *)
(* (three backquotes).  "cut" is what is left of a string literal that a     *)
(* slice ended in.                                                           *)

KeyTokens == {"a:", "b:", "c:", "d:", "url:"}

\* the key a key piece spells
KeyName(tok) ==
    CASE tok = "a:" -> "a"
      [] tok = "b:" -> "b"
      [] tok = "c:" -> "c"
      [] tok = "d:" -> "d"
      [] OTHER -> "url"

\* a parsed JSON value: t is its type, v a scalar's content, m an object's members
Val(t, v, m) == [t |-> t, v |-> v, m |-> m]

NoMembers == [key \in {} |-> 0]

NoVal == Val("none", "", NoMembers)

\* d[key] = val of a Python dict
SetKey(m, key, val) == [kk \in DOMAIN m \cup {key} |-> IF kk = key THEN val ELSE m[kk]]

ParseOk(val, rest) == [ok |-> TRUE, val |-> val, rest |-> rest]

ParseFail == [ok |-> FALSE, val |-> NoVal, rest |-> <<>>]

\* the JSON decoder skips whitespace between pieces
RECURSIVE SkipWs(_)
SkipWs(toks) ==
    IF toks # <<>> /\ Head(toks) = "nl" THEN SkipWs(Tail(toks)) ELSE toks

\* the JSON decoder: one value at the head of toks, and the rest behind it
RECURSIVE ParseValue(_)
RECURSIVE ParseMembers(_, _)
ParseValue(toks) ==
    LET t == SkipWs(toks) IN
    IF t = <<>> THEN ParseFail
    ELSE CASE Head(t) = "1" -> ParseOk(Val("num", "1", NoMembers), Tail(t))
           [] Head(t) = "s}" -> ParseOk(Val("str", "}", NoMembers), Tail(t))
           [] Head(t) = "sfence" -> ParseOk(Val("str", "fence", NoMembers), Tail(t))
           [] Head(t) = "[1]" -> ParseOk(Val("list", "[1]", NoMembers), Tail(t))
           [] Head(t) = "{" ->
                LET r == SkipWs(Tail(t)) IN
                IF r # <<>> /\ Head(r) = "}"
                THEN ParseOk(Val("dict", "", NoMembers), Tail(r))
                ELSE ParseMembers(r, NoMembers)
           [] OTHER -> ParseFail

ParseMembers(toks, acc) ==
    LET t == SkipWs(toks) IN
    IF t = <<>> \/ Head(t) \notin KeyTokens THEN ParseFail
    ELSE LET pv == ParseValue(Tail(t)) IN
         IF ~pv.ok THEN ParseFail
         ELSE LET acc2 == SetKey(acc, KeyName(Head(t)), pv.val)
                  r == SkipWs(pv.rest)
              IN IF r = <<>> THEN ParseFail
                 ELSE IF Head(r) = "}" THEN ParseOk(Val("dict", "", acc2), Tail(r))
                 ELSE IF Head(r) = "," THEN ParseMembers(Tail(r), acc2)
                 ELSE ParseFail

\* json.loads(text): ok = FALSE stands for JSONDecodeError
json_loads(toks) ==
    LET pv == ParseValue(toks) IN
    IF pv.ok /\ SkipWs(pv.rest) = <<>> THEN [ok |-> TRUE, val |-> pv.val]
    ELSE [ok |-> FALSE, val |-> NoVal]

\* the values _add_metadata writes
UrlOfCall == Val("str", "<url of the call>", NoMembers)

ModelOfProvider == Val("str", "<self.model>", NoMembers)

NameOfProvider == Val("str", "<self.name>", NoMembers)

\* a recovery that hands the parsed value on as it is
keep_parsed(val) == val

\* _add_metadata: analysis_data.update({"url": ..., "model": ..., "provider": ...})
add_metadata(val) ==
    Val("dict", "", SetKey(SetKey(SetKey(val.m, "url", UrlOfCall),
                                  "model", ModelOfProvider),
                           "provider", NameOfProvider))

\* an outcome of one strategy: it returns, raises, or leaves it to the next one
JrReturns(via, val) ==
    [kind |-> "return", via |-> via, value |-> val, raw_analysis |-> <<>>, parsing_error |-> ""]

JrRaises(via, e) ==
    [kind |-> "raise", via |-> via, value |-> NoVal, raw_analysis |-> <<>>, parsing_error |-> e]

JrFallback(via, text, marker) ==
    [kind |-> "return", via |-> via, value |-> NoVal, raw_analysis |-> text, parsing_error |-> marker]

JrNext == [kind |-> "next", via |-> 0, value |-> NoVal, raw_analysis |-> <<>>, parsing_error |-> ""]

\* analysis_data = json.loads(s); self._add_metadata(analysis_data, url);
\* return analysis_data -- update() exists on a dict only; nothing here
\* catches the AttributeError of another value
ParseAndReturn(via, toks) ==
    LET r == json_loads(toks) IN
    IF ~r.ok THEN JrNext
    ELSE IF r.val.t # "dict" THEN JrRaises(via, "AttributeError")
    ELSE JrReturns(via, add_metadata(r.val))

\* the smallest element of a non-empty set of numbers
MinOf(S) == CHOOSE i \in S : \A j \in S : i <= j

\* Strategy 1: json.loads(analysis_text)
Strategy1Outcome(text) == ParseAndReturn(1, text)

\* Strategy 2: the text between the first "fence_json" and the next "fence"
Strategy2Outcome(text) ==
    LET opens == {i \in 1..Len(text) : text[i] = "fence_json"} IN
    IF opens = {} THEN JrNext
    ELSE LET json_start == MinOf(opens)
             closes == {i \in (json_start + 1)..Len(text) :
                           text[i] \in {"fence", "fence_json", "sfence"}}
         IN IF closes = {} THEN JrNext
            ELSE LET json_end == MinOf(closes) IN
                 ParseAndReturn(2, SubSeq(text, json_start + 1, json_end - 1)
                                   \o (IF text[json_end] = "sfence" THEN <<"cut">> ELSE <<>>))

\* the braces a piece contains, as the count its characters add to brace_count
BraceDelta(tok) ==
    CASE tok = "{" -> 1
      [] tok \in {"}", "s}"} -> -1
      [] OTHER -> 0

\* brace_count after the pieces i..j of text
RECURSIVE BraceCount(_, _, _)
BraceCount(text, i, j) ==
    IF j < i THEN 0 ELSE BraceCount(text, i, j - 1) + BraceDelta(text[j])

\* the slice of text from piece i to right after the closing brace in piece j
SliceTo(text, i, j) ==
    IF text[j] = "s}" THEN SubSeq(text, i, j - 1) \o <<"cut">> ELSE SubSeq(text, i, j)

\* the span Strategy 3 cuts out: from the first "{" to the character at which
\* brace_count returns to 0; <<>> when there is no "{" or the count never does
BraceSpan(text) ==
    LET starts == {i \in 1..Len(text) : text[i] = "{"} IN
    IF starts = {} THEN <<>>
    ELSE LET json_start == MinOf(starts)
             ends == {j \in json_start..Len(text) :
                         BraceDelta(text[j]) = -1 /\ BraceCount(text, json_start, j) = 0}
         IN IF ends = {} THEN <<>> ELSE SliceTo(text, json_start, MinOf(ends))

\* Strategy 3: json.loads of that span
Strategy3Outcome(text) ==
    IF BraceSpan(text) = <<>> THEN JrNext ELSE ParseAndReturn(3, BraceSpan(text))

\* the nesting json_pattern follows: an object, objects in it, objects in those
RegexDepth == 3

\* where a match of json_pattern that starts at the "{" in piece i ends: at the
\* character that closes it, if the braces between nest no deeper than the
\* pattern does; 0 when there is no match at i
RegexMatchEnd(text, i) ==
    LET ends == {j \in i..Len(text) : BraceDelta(text[j]) = -1 /\ BraceCount(text, i, j) = 0} IN
    IF ends = {} THEN 0
    ELSE IF \E mid \in i..MinOf(ends) : BraceCount(text, i, mid) > RegexDepth THEN 0
    ELSE MinOf(ends)

\* re.findall(json_pattern, analysis_text): the matches from piece i on, left
\* to right, none overlapping another
RECURSIVE RegexFindAll(_, _)
RegexFindAll(text, i) ==
    IF i > Len(text) THEN <<>>
    ELSE IF text[i] = "{" /\ RegexMatchEnd(text, i) # 0
         THEN <<SliceTo(text, i, RegexMatchEnd(text, i))>>
              \o RegexFindAll(text, RegexMatchEnd(text, i) + 1)
         ELSE RegexFindAll(text, i + 1)

\* len(potential_json) > 3
MinKeys == 3

\* for match in json_matches: the first that parses to a dict of more than 3 keys
RECURSIVE FirstLargeDict(_)
FirstLargeDict(matches) ==
    IF matches = <<>> THEN JrNext
    ELSE LET r == json_loads(Head(matches)) IN
         IF r.ok /\ r.val.t = "dict" /\ Cardinality(DOMAIN r.val.m) > MinKeys
         THEN JrReturns(4, add_metadata(r.val))
         ELSE FirstLargeDict(Tail(matches))

\* Strategy 4: the regex scan
Strategy4Outcome(text) == FirstLargeDict(RegexFindAll(text, 1))

\* analysis_text.split('\n')
RECURSIVE SplitLines(_, _)
SplitLines(text, line) ==
    IF text = <<>> THEN <<line>>
    ELSE IF Head(text) = "nl" THEN <<line>> \o SplitLines(Tail(text), <<>>)
    ELSE SplitLines(Tail(text), Append(line, Head(text)))

\* stripped.startswith('{') and stripped.endswith('}')
StartsWithBrace(line) == line # <<>> /\ line[1] = "{"

EndsWithBrace(line) == line # <<>> /\ line[Len(line)] = "}"

\* the loop over the lines: json_lines once it is left
RECURSIVE CollectJsonLines(_, _)
CollectJsonLines(lines, in_json) ==
    IF lines = <<>> THEN <<>>
    ELSE LET line == Head(lines)
             taken == StartsWithBrace(line) \/ in_json
         IN (IF taken THEN <<line>> ELSE <<>>)
            \o (IF EndsWithBrace(line) /\ taken THEN <<>>
                ELSE CollectJsonLines(Tail(lines), taken))

\* '\n'.join(json_lines)
RECURSIVE JoinLines(_)
JoinLines(lines) ==
    IF lines = <<>> THEN <<>>
    ELSE IF Len(lines) = 1 THEN Head(lines)
    ELSE Head(lines) \o <<"nl">> \o JoinLines(Tail(lines))

\* Strategy 5: the line scan
Strategy5Outcome(text) ==
    LET json_lines == CollectJsonLines(SplitLines(text, <<>>), FALSE) IN
    IF json_lines = <<>> THEN JrNext ELSE ParseAndReturn(5, JoinLines(json_lines))

\* Strategy 6: the raw text and a parsing_error
Strategy6Outcome(text) == JrFallback(6, text, "Could not parse JSON, returned raw text")

\* the strategies in the order the code tries them
StrategyOutcome(n, text) ==
    CASE n = 1 -> Strategy1Outcome(text)
      [] n = 2 -> Strategy2Outcome(text)
      [] n = 3 -> Strategy3Outcome(text)
      [] n = 4 -> Strategy4Outcome(text)
      [] n = 5 -> Strategy5Outcome(text)
      [] OTHER -> Strategy6Outcome(text)

\* what the model writes before its JSON: nothing, prose, or prose with a
\* braced remark and a line break
Prefixes == { <<>>, <<"x">>, <<"x", "{", "x", "}", "nl">> }

\* the JSON part of the answer (or what stands in its place)
Bodies ==
    { <<"{", "a:", "1", "}">>,
      <<"{", "a:", "{", "b:", "1", "}", "}">>,
      <<"{", "a:", "{", "b:", "s}", "}", "}">>,
      <<"{", "a:", "1", ",", "b:", "1", ",", "c:", "1", ",", "d:", "1", "}">>,
      <<"{", "url:", "1", ",", "a:", "1", "}">>,
      <<"{", "nl", "a:", "{", "b:", "{", "c:", "{", "d:", "1", "}", "}", "}", "nl", "}">>,
      <<"{", "a:", "sfence", "}">>,
      <<"[1]">>,
      <<"1">>,
      <<"{", "x", "}">>,
      <<"{", "a:", "1">>,
      <<"x">> }

\* what the model writes after it: nothing, or prose with a stray closing brace
Suffixes == { <<>>, <<"x", "}", "x">> }

\* analysis_text = response["content"][0]["text"]
Text(parts) ==
    parts.prefix
    \o (IF parts.fenced THEN <<"fence_json", "nl">> \o parts.body \o <<"nl", "fence">>
        ELSE parts.body)
    \o parts.suffix

NoJrResult == [kind |-> "none", via |-> 0, value |-> NoVal, raw_analysis |-> <<>>, parsing_error |-> ""]

NoParts == [prefix |-> <<>>, body |-> <<>>, suffix |-> <<>>, fenced |-> FALSE]

\* no answer is being recovered
JsonIdle ==
    /\ jr_parts = NoParts
    /\ jr_step = 0
    /\ jr_span = <<>>
    /\ jr_result = NoJrResult

\* the outside of JSON recovery stays as it is
JsonFrame ==
    /\ UNCHANGED jr_parts
    /\ UNCHANGED <<op_call, op_result>>
    /\ UNCHANGED plVars
    /\ UNCHANGED agVars
    /\ UNCHANGED rqVars
    /\ UNCHANGED facVars
    /\ UNCHANGED wfVars

\* response["content"][0]["text"] is there
ExtractText ==
    /\ jr_step = 0
    /\ jr_step' = 1
    /\ UNCHANGED <<jr_span, jr_result>>
    /\ JsonFrame

\* except (KeyError, IndexError): the response has no content[0].text
InvalidResponseStructure ==
    /\ jr_step = 0
    /\ jr_step' = 7
    /\ jr_result' = JrFallback(0, <<"str(response)">>, "Invalid response structure")
    /\ UNCHANGED jr_span
    /\ JsonFrame

\* strategy n runs: it returns, raises, or falls through to strategy n + 1
TryStrategy(n) ==
    /\ jr_step = n
    /\ LET o == StrategyOutcome(n, Text(jr_parts)) IN
          IF o.kind = "next"
          THEN jr_step' = n + 1 /\ UNCHANGED jr_result
          ELSE jr_step' = 7 /\ jr_result' = o
    /\ jr_span' = IF n = 3 THEN BraceSpan(Text(jr_parts)) ELSE jr_span
    /\ JsonFrame

----------------------------------------------------------------------------
(* The data the phases 2..5 hand on: the design colours, the content        *)
(* strategy and its posts, the prompts made from them, the image manifest.   *)

\* the colours the design agent reads off a page
ExtractedColor == "#1A73E8"

\* color_kit.get("brand_primary", {}).get("hex", "#007AFF") of create_gemini_prompt
DefaultBrandPrimary == "#007AFF"

\* the post_number values an AI answer gives a post; 0 stands for no post_number key
PostNumbers == {0, 1, 2}

\* the instagram_posts lists of an AI answer, as the posts' post_number values
PostLists == UNION { [1..n -> PostNumbers] : n \in 0..MaxPosts }

NoDesign == [present |-> FALSE, hasError |-> FALSE, color |-> ""]

NoContent == [present |-> FALSE, canned |-> FALSE, guide_key |-> "", guide_hex |-> "",
              posts |-> <<>>]

\* the data path has not started
PipelineIdle ==
    /\ pl_pc = "idle"
    /\ pl_design = NoDesign
    /\ pl_answer = ""
    /\ pl_content = NoContent
    /\ pl_prompts = <<>>
    /\ pl_images = <<>>
    /\ pl_error = ""

\* what ScreenshotAnalyzer.process returns, with saved = it wrote the
\* design-analysis file: the analysis with color_kit.brand_primary.hex, an
\* analysis without a color_kit, or the error record of its except branch
DesignOutcomes ==
    { [rec |-> [present |-> TRUE, hasError |-> FALSE, color |-> ExtractedColor], saved |-> TRUE],
      [rec |-> [present |-> TRUE, hasError |-> FALSE, color |-> ""], saved |-> TRUE],
      [rec |-> [present |-> TRUE, hasError |-> TRUE, color |-> ""], saved |-> FALSE] }

\* what an AI answer has as design_guidelines: none, the colour of the design
\* analysis under "colors" or under "color_kit", or a colour of its own
GuidelineChoices(design) ==
    { [key |-> "", hex |-> ""], [key |-> "colors", hex |-> "#FF0000"] }
    \cup (IF design.color = "" THEN {}
          ELSE { [key |-> "colors", hex |-> design.color],
                 [key |-> "color_kit", hex |-> design.color] })

\* the "Fallback structure" of create_content_strategy: three posts numbered
\* 1, 2, 3 and no design_guidelines
CannedStrategy ==
    [present |-> TRUE, canned |-> TRUE, guide_key |-> "", guide_hex |-> "",
     posts |-> <<1, 2, 3>>]

\* ClaudeProvider.create_content_strategy after the request: json.loads of the
\* answer; a dict is returned with raw_response added; item assignment on
\* another value raises TypeError; JSONDecodeError is caught and the canned
\* strategy is returned in place of the answer
create_content_strategy(answer, parsed) ==
    CASE answer = "object" -> Returns(parsed, TRUE)
      [] answer = "list" -> Raises("TypeError")
      [] OTHER -> Returns(CannedStrategy, TRUE)

\* the outside of the data path stays as it is
PipelineFrame ==
    /\ UNCHANGED <<pc, k, custom_prompts, workflow_status, phases, error, failed_phases,
                   calls, business_intel, design_analysis, social_content,
                   instagram_prompts, single_call, single_result>>
    /\ UNCHANGED <<op_call, op_result>>
    /\ UNCHANGED rqVars
    /\ UNCHANGED jrVars
    /\ UNCHANGED facVars
    /\ UNCHANGED agVars

\* phase 2: ScreenshotAnalyzer.process returns
DesignAnalysis ==
    /\ pl_pc = "design"
    /\ \E o \in DesignOutcomes :
          /\ pl_design' = o.rec
          /\ design_file' = (design_file \/ o.saved)
    /\ pl_pc' = "content"
    /\ UNCHANGED <<pl_answer, pl_content, pl_prompts, pl_images, pl_error>>
    /\ PipelineFrame

\* phase 3: SocialContentCreator.process; the request to the AI fails
ContentRequestFails ==
    /\ pl_pc = "content"
    /\ pl_pc' = "raised"
    /\ pl_error' = "HTTPError"
    /\ UNCHANGED <<pl_design, pl_answer, pl_content, pl_prompts, pl_images, design_file>>
    /\ PipelineFrame

\* phase 3: SocialContentCreator.process; the AI answered, and the agent
\* returns what create_content_strategy returned or lets its exception out
ContentStrategy(answer, ps, g) ==
    /\ pl_pc = "content"
    /\ pl_answer' = answer
    /\ LET parsed == [present |-> TRUE, canned |-> FALSE, guide_key |-> g.key,
                      guide_hex |-> g.hex, posts |-> ps]
           o == create_content_strategy(answer, parsed)
       IN IF o.type = "return"
          THEN /\ pl_content' = o.rec
               /\ pl_pc' = "prompts"
               /\ UNCHANGED pl_error
          ELSE /\ pl_pc' = "raised"
               /\ pl_error' = o.msg
               /\ UNCHANGED pl_content
    /\ UNCHANGED <<pl_design, pl_prompts, pl_images, design_file>>
    /\ PipelineFrame

\* color_kit = design_guidelines.get("colors", {});
\* brand_primary = color_kit.get("brand_primary", {}).get("hex", "#007AFF")
brand_primary(content) ==
    IF content.guide_key = "colors" /\ content.guide_hex # ""
    THEN content.guide_hex ELSE DefaultBrandPrimary

\* post.get("post_number", index)
PromptPostNumber(plist, index) == IF plist[index] = 0 THEN index ELSE plist[index]

\* generate_prompts: one prompt per post, in the order of instagram_posts;
\* color is the brand colour create_gemini_prompt writes into the prompt text
generate_prompts(content) ==
    [index \in 1..Len(content.posts) |->
        [post_number |-> PromptPostNumber(content.posts, index),
         color |-> brand_primary(content),
         post |-> index]]

\* phase 4: InstagramPromptGenerator.process returns prompts_data
GeneratePrompts ==
    /\ pl_pc = "prompts"
    /\ pl_prompts' = generate_prompts(pl_content)
    /\ pl_pc' = "images"
    /\ UNCHANGED <<pl_design, pl_answer, pl_content, pl_images, pl_error, design_file>>
    /\ PipelineFrame

\* every prompt is rendered
AllPrompts(prompts) == prompts

\* prompts = prompts[:3]
LimitedPrompts(prompts) == SubSeq(prompts, 1, Min(Len(prompts), ImageLimit))

\* phase 5: BrandImageGenerator.process up to its loop: it raises without a
\* design-analysis file and without prompts
StartImages ==
    /\ pl_pc = "images"
    /\ IF ~design_file
       THEN pl_pc' = "raised" /\ pl_error' = "No design analysis file found"
       ELSE IF pl_prompts = <<>>
       THEN pl_pc' = "raised" /\ pl_error' = "No prompts found in prompts_data"
       ELSE pl_pc' = "render" /\ UNCHANGED pl_error
    /\ UNCHANGED <<pl_design, pl_answer, pl_content, pl_prompts, pl_images, design_file>>
    /\ PipelineFrame

\* one turn of the loop over enumerate(prompts, 1): the image is made and
\* saved, or the exception is caught; either way an entry is appended, and
\* after the last prompt the manifest is saved and returned
RenderImage(ok) ==
    /\ pl_pc = "render"
    /\ LET index == Len(pl_images) + 1 IN
          /\ pl_images' = Append(pl_images,
                                 [post_number |-> index,
                                  status |-> IF ok THEN "success" ELSE "failed",
                                  prompt |-> index])
          /\ pl_pc' = IF index = Len(LimitedPrompts(pl_prompts)) THEN "done" ELSE "render"
    /\ UNCHANGED <<pl_design, pl_answer, pl_content, pl_prompts, pl_error, design_file>>
    /\ PipelineFrame

----------------------------------------------------------------------------
(* BusinessIntelligenceAnalyzer: founders.  A name is a sequence of          *)
(* characters; a founder is the name, the list it came from and its place   *)
(* in that list (what the rest of its dict is told apart by).               *)

\* largest number of founders in a list
MaxFounders == 2

\* the name of a founder dict whose "name" is JSON null
Null == <<"null">>

\* the names the AI answers with: none or empty, blank, two names, null
ExistingNames == { <<>>, <<" ">>, <<"J">>, <<"a">>, Null }

\* the names found on About pages
PageNames == { <<>>, <<"j", " ">>, <<"J">>, <<"b">> }

\* the lists of founders of source src with names of the set names
FounderLists(names, src) ==
    UNION { { [i \in 1..n |-> [name |-> ns[i], src |-> src, pos |-> i]] :
              ns \in [1..n -> names] } : n \in 0..MaxFounders }

\* str.lower()
lower(str) == [i \in 1..Len(str) |-> IF str[i] = "J" THEN "j" ELSE str[i]]

\* str.strip()
RECURSIVE strip(_)
strip(str) ==
    IF str = <<>> THEN <<>>
    ELSE IF Head(str) = " " THEN strip(Tail(str))
    ELSE IF str[Len(str)] = " " THEN strip(SubSeq(str, 1, Len(str) - 1))
    ELSE str

\* founder.get('name', '').lower().strip()
NormalizedName(founder) == strip(lower(founder.name))

\* the loop "for founder in ...: name = ...; if name and name not in
\* seen_names: seen_names.add(name); merged_founders.append(founder)";
\* .lower() of a null name raises AttributeError and ends the loop
RECURSIVE AddFounders(_, _, _)
AddFounders(founders, merged, seen) ==
    IF founders = <<>> THEN [raised |-> FALSE, founders |-> merged, seen |-> seen]
    ELSE IF Head(founders).name = Null
    THEN [raised |-> TRUE, founders |-> <<>>, seen |-> seen]
    ELSE LET name == NormalizedName(Head(founders)) IN
         IF name # <<>> /\ name \notin seen
         THEN AddFounders(Tail(founders), Append(merged, Head(founders)), seen \cup {name})
         ELSE AddFounders(Tail(founders), merged, seen)

\* a merge that adds the existing founders first
merge_existing_first(existing_founders, enhanced_founders) ==
    LET first == AddFounders(existing_founders, <<>>, {}) IN
    IF first.raised THEN first
    ELSE AddFounders(enhanced_founders, first.founders, first.seen)

\* _merge_founder_data: the enhanced founders first, then the existing ones
\* whose name was not seen
merge_founder_data(existing_founders, enhanced_founders) ==
    LET first == AddFounders(enhanced_founders, <<>>, {}) IN
    IF first.raised THEN first
    ELSE AddFounders(existing_founders, first.founders, first.seen)

\* extract_founder_details, after the pages were read: "Remove duplicates
\* based on name"
extract_founder_details(page_founders) == AddFounders(page_founders, <<>>, {}).founders

\* business_intel['founders'] at the end of process: the merged list when
\* About pages were found and the merge returned; the founders of the AI's
\* answer when none was found or the except branch of step 4 was taken
ProcessFounders(existing_founders, page_founders, about) ==
    IF ~about THEN existing_founders
    ELSE LET merged == merge_founder_data(existing_founders,
                                          extract_founder_details(page_founders)) IN
         IF merged.raised THEN existing_founders ELSE merged.founders

NoFounderResult == [via |-> "", raised |-> FALSE, founders |-> <<>>]

\* the statuses a site answers with
SiteStatuses == {200, 403, 404, 500}

FounderIdle ==
    /\ fd_pc = "idle"
    /\ fd_status = 200
    /\ fd_html = ""
    /\ fd_existing = <<>>
    /\ fd_page = <<>>
    /\ fd_about = FALSE
    /\ fd_result = NoFounderResult

FounderFrame ==
    /\ UNCHANGED <<fd_status, fd_existing, fd_page, fd_about>>
    /\ UNCHANGED coreVars
    /\ AgFrame("fd")

\* _merge_founder_data(existing_founders, enhanced_founders) is called
MergeFounderData ==
    /\ fd_pc = "start"
    /\ LET merged == merge_founder_data(fd_existing, fd_page) IN
          fd_result' = [via |-> "merge", raised |-> merged.raised, founders |-> merged.founders]
    /\ fd_pc' = "done"
    /\ UNCHANGED fd_html
    /\ FounderFrame

\* process is called; step 1, fetch_website_content: requests.get and
\* raise_for_status; a status of 400 or more raises HTTPError, which the
\* except branch logs and raises again, and process has no handler for it
FetchWebsiteContent ==
    /\ fd_pc = "start"
    /\ IF fd_status >= 400
       THEN /\ fd_pc' = "raised"
            /\ fd_result' = [via |-> "process", raised |-> TRUE, founders |-> <<>>]
            /\ UNCHANGED fd_html
       ELSE /\ fd_pc' = "fetched"
            /\ fd_html' = "content"
            /\ UNCHANGED fd_result
    /\ FounderFrame

\* process, steps 3 and 4, up to the founders of the record returned
Process ==
    /\ fd_pc = "fetched"
    /\ fd_result' = [via |-> "process", raised |-> FALSE,
                     founders |-> ProcessFounders(fd_existing, fd_page, fd_about)]
    /\ fd_pc' = "done"
    /\ UNCHANGED fd_html
    /\ FounderFrame

----------------------------------------------------------------------------
(* BusinessIntelligenceAnalyzer.extract_social_media_links.  An anchor is the *)
(* set of platforms whose patterns its href matches; an og:url meta tag is  *)
(* the set of platform names its content contains.                          *)

\* largest number of anchors, and of og:url meta tags, of a page
MaxLinks == 2

\* three of the keys of social_patterns, in the order of the dict
PlatformOrder == <<"facebook", "twitter", "medium">>

\* what an href matches: nothing, one platform, or (a medium.com link to a
\* twitter.com address) two
AnchorMatches == { {}, {"facebook"}, {"twitter"}, {"medium"}, {"twitter", "medium"} }

\* the platform names the content of an og:url tag contains
MetaNames == { {}, {"facebook"}, {"twitter"}, {"facebook", "twitter"}, {"twitter", "medium"} }

SourceLists(choices) == UNION { [1..n -> choices] : n \in 0..MaxLinks }

\* a loop over social_patterns that does not look at found_platforms
RECURSIVE ScanAnchorUnguarded(_, _, _, _)
ScanAnchorUnguarded(matches, pos, p, accounts) ==
    IF p > Len(PlatformOrder) THEN accounts
    ELSE IF PlatformOrder[p] \in matches
         THEN ScanAnchorUnguarded(matches, pos, p + 1,
                  Append(accounts, [platform |-> PlatformOrder[p], src |-> "anchor", pos |-> pos]))
         ELSE ScanAnchorUnguarded(matches, pos, p + 1, accounts)

\* the loop over social_patterns for one anchor: an entry for every platform
\* the href matches that is not in found_platforms
RECURSIVE ScanAnchor(_, _, _, _)
ScanAnchor(matches, pos, p, accounts) ==
    IF p > Len(PlatformOrder) THEN accounts
    ELSE LET platform == PlatformOrder[p] IN
         IF platform \in matches /\ \A i \in 1..Len(accounts) : accounts[i].platform # platform
         THEN ScanAnchor(matches, pos, p + 1,
                         Append(accounts, [platform |-> platform, src |-> "anchor", pos |-> pos]))
         ELSE ScanAnchor(matches, pos, p + 1, accounts)

\* for link in all_links
RECURSIVE ScanAnchors(_, _, _)
ScanAnchors(links, pos, accounts) ==
    IF pos > Len(links) THEN accounts
    ELSE ScanAnchors(links, pos + 1, ScanAnchor(links[pos], pos, 1, accounts))

\* the first platform of social_patterns that content contains, 0 if none
RECURSIVE FirstNamed(_, _)
FirstNamed(names, p) ==
    IF p > Len(PlatformOrder) THEN 0
    ELSE IF PlatformOrder[p] \in names THEN p
    ELSE FirstNamed(names, p + 1)

\* for meta in meta_tags: the loop over social_patterns stops (break) at the
\* first platform the content contains, whether or not an entry was added
RECURSIVE ScanMetas(_, _, _)
ScanMetas(metas, pos, accounts) ==
    IF pos > Len(metas) THEN accounts
    ELSE LET p == FirstNamed(metas[pos], 1) IN
         IF p = 0 THEN ScanMetas(metas, pos + 1, accounts)
         ELSE LET platform == PlatformOrder[p] IN
              IF \A i \in 1..Len(accounts) : accounts[i].platform # platform
              THEN ScanMetas(metas, pos + 1,
                             Append(accounts, [platform |-> platform, src |-> "meta", pos |-> pos]))
              ELSE ScanMetas(metas, pos + 1, accounts)

\* extract_social_media_links once the page was fetched and parsed
social_media_accounts(links, metas) == ScanMetas(metas, 1, ScanAnchors(links, 1, <<>>))

SocialIdle ==
    /\ sl_pc = "idle"
    /\ sl_links = <<>>
    /\ sl_metas = <<>>
    /\ sl_result = <<>>

SocialFrame ==
    /\ UNCHANGED <<sl_links, sl_metas>>
    /\ UNCHANGED coreVars
    /\ AgFrame("sl")

\* extract_social_media_links returns the accounts of the page
ExtractSocialMediaLinks ==
    /\ sl_pc = "start"
    /\ sl_result' = social_media_accounts(sl_links, sl_metas)
    /\ sl_pc' = "done"
    /\ SocialFrame

\* _fetch_and_parse returned None or something raised: the list returned is empty
ExtractSocialMediaLinksFails ==
    /\ sl_pc = "start"
    /\ sl_result' = <<>>
    /\ sl_pc' = "failed"
    /\ SocialFrame

----------------------------------------------------------------------------
(* Workflow invocations the HTTP front end runs at the same time: analyze()  *)
(* writes the request's preferences to os.environ and starts a thread; the  *)
(* thread constructs the orchestrator and its agents (which read os.environ) *)
(* and runs the workflow, whose screenshot goes through /tmp/screenshot.png. *)

\* the invocations running at the same time
Invocations == {1, 2}

\* the provider a request asks for in its form
RequestProviders == {"claude", "openai"}

\* the providers whose API key the server has
ServerCredentials == {"claude", "openai"}

NoFile == 0

ConcurrentIdle ==
    /\ cc_pc = [i \in Invocations |-> "idle"]
    /\ cc_request = [i \in Invocations |-> "claude"]
    /\ cc_provider = [i \in Invocations |-> ""]
    /\ temp_file = NoFile
    /\ cc_overwrote = [i \in Invocations |-> NoFile]
    /\ cc_analyzed = [i \in Invocations |-> NoFile]
    /\ cc_removed = [i \in Invocations |-> NoFile]

ConcurrentFrame ==
    /\ UNCHANGED <<cc_request, credentials, factory_result>>
    /\ UNCHANGED <<wfVars, op_call, op_result, rqVars, jrVars, plVars>>
    /\ AgFrame("cc")

\* analyze(): the handler of POST /analyze sets the AI_*_PROVIDER variables
\* from the form and starts the thread
Analyze(i) ==
    /\ cc_pc[i] = "request"
    /\ env_pref' = [c \in Capabilities |->
                       IF c \in ConfiguredCapabilities THEN cc_request[i] ELSE env_pref[c]]
    /\ cc_pc' = [cc_pc EXCEPT ![i] = "thread"]
    /\ UNCHANGED <<cc_provider, temp_file, cc_overwrote, cc_analyzed, cc_removed>>
    /\ ConcurrentFrame

\* run_workflow: BrandWorkflowOrchestrator() constructs the agents;
\* BusinessIntelligenceAnalyzer.__init__ asks the factory for the configured
\* provider of WEB_ANALYSIS
InitializeOrchestrator(i) ==
    /\ cc_pc[i] = "thread"
    /\ cc_provider' = [cc_provider EXCEPT ![i] = get_configured_provider("web_analysis").name]
    /\ cc_pc' = [cc_pc EXCEPT ![i] = "capture"]
    /\ UNCHANGED <<env_pref, temp_file, cc_overwrote, cc_analyzed, cc_removed>>
    /\ ConcurrentFrame

\* capture_screenshot_with_bash: curl -o /tmp/screenshot.png writes the
\* screenshot of this invocation's url over whatever the file holds
CaptureScreenshot(i) ==
    /\ cc_pc[i] = "capture"
    /\ temp_file' = i
    /\ cc_overwrote' = [cc_overwrote EXCEPT ![i] = temp_file]
    /\ cc_pc' = [cc_pc EXCEPT ![i] = "analyze"]
    /\ UNCHANGED <<env_pref, cc_provider, cc_analyzed, cc_removed>>
    /\ ConcurrentFrame

\* capture_screenshot_with_bash raises: process returns the error record and
\* its finally branch has no temp_file to remove
CaptureFails(i) ==
    /\ cc_pc[i] = "capture"
    /\ cc_pc' = [cc_pc EXCEPT ![i] = "done"]
    /\ UNCHANGED <<env_pref, cc_provider, temp_file, cc_overwrote, cc_analyzed, cc_removed>>
    /\ ConcurrentFrame

\* analyze_screenshot_with_ai reads /tmp/screenshot.png as it is now (the
\* fallback analysis when the file does not exist)
AnalyzeScreenshot(i) ==
    /\ cc_pc[i] = "analyze"
    /\ cc_analyzed' = [cc_analyzed EXCEPT ![i] = temp_file]
    /\ cc_pc' = [cc_pc EXCEPT ![i] = "cleanup"]
    /\ UNCHANGED <<env_pref, cc_provider, temp_file, cc_overwrote, cc_removed>>
    /\ ConcurrentFrame

\* the finally branch of process: os.remove(temp_file) if the file exists
Cleanup(i) ==
    /\ cc_pc[i] = "cleanup"
    /\ cc_removed' = [cc_removed EXCEPT ![i] = temp_file]
    /\ temp_file' = NoFile
    /\ cc_pc' = [cc_pc EXCEPT ![i] = "done"]
    /\ UNCHANGED <<env_pref, cc_provider, cc_overwrote, cc_analyzed>>
    /\ ConcurrentFrame

----------------------------------------------------------------------------
(* The web front end: workflow_results[session_id] as analyze() and its     *)
(* thread write it, and the page GET /results/<session_id> answers with.    *)

\* the sessions of the front end
Sessions == {"s1", "s2"}

\* the workflow_status values run_complete_workflow returns
StoredStatuses == {"completed", "completed_with_errors", "failed"}

\* the page results() answers with for a session of this status ("absent":
\* session_id not in workflow_results)
results_page(status) ==
    CASE status = "absent" -> "redirect"
      [] status = "in_progress" -> "loading"
      [] OTHER -> "results"

NoPage == [page |-> "none", status |-> "absent"]

SessionIdle ==
    /\ ws_status = [s \in Sessions |-> "absent"]
    /\ ws_pc = [s \in Sessions |-> "idle"]
    /\ ws_page = [s \in Sessions |-> NoPage]

SessionFrame ==
    /\ UNCHANGED coreVars
    /\ AgFrame("ws")

\* POST /analyze: the session is created with status starting and the thread
\* is started
AnalyzeSession(s) ==
    /\ ws_pc[s] = "new"
    /\ ws_status' = [ws_status EXCEPT ![s] = "starting"]
    /\ ws_pc' = [ws_pc EXCEPT ![s] = "started"]
    /\ UNCHANGED ws_page
    /\ SessionFrame

\* run_workflow: the next assignment of a status on the way to the workflow
ThreadAdvances(s) ==
    /\ ws_pc[s] \in {"started", "in_progress", "initializing", "running"}
    /\ LET next == CASE ws_pc[s] = "started" -> "in_progress"
                     [] ws_pc[s] = "in_progress" -> "initializing"
                     [] ws_pc[s] = "initializing" -> "running"
                     [] OTHER -> "analyzing"
       IN /\ ws_status' = [ws_status EXCEPT ![s] = next]
          /\ ws_pc' = [ws_pc EXCEPT ![s] = next]
    /\ UNCHANGED ws_page
    /\ SessionFrame

\* run_workflow: an import, the construction of the orchestrator or the
\* workflow raised; the outer except branch stores a failed record
ThreadFails(s) ==
    /\ ws_pc[s] \in {"in_progress", "initializing", "running", "analyzing"}
    /\ ws_status' = [ws_status EXCEPT ![s] = "failed"]
    /\ ws_pc' = [ws_pc EXCEPT ![s] = "ended"]
    /\ UNCHANGED ws_page
    /\ SessionFrame

\* run_workflow: run_complete_workflow returned and its results are stored
WorkflowStored(s, status) ==
    /\ ws_pc[s] = "analyzing"
    /\ ws_status' = [ws_status EXCEPT ![s] = status]
    /\ ws_pc' = [ws_pc EXCEPT ![s] = "ended"]
    /\ UNCHANGED ws_page
    /\ SessionFrame

\* GET /results/<session_id>
Results(s) ==
    /\ ws_page' = [ws_page EXCEPT ![s] = [page |-> results_page(ws_status[s]),
                                           status |-> ws_status[s]]]
    /\ UNCHANGED <<ws_status, ws_pc>>
    /\ SessionFrame

----------------------------------------------------------------------------
(* FacebookScraper.scrape_facebook_posts against a Bright Data API whose     *)
(* answers are fixed beforehand: what /trigger answers, what /progress       *)
(* answers poll after poll until the time is up, what /snapshot answers.     *)

\* largest number of progress polls before max_wait_time is over
MaxPolls == 2

\* /trigger: a snapshot id, a response without one, a request error
TriggerAnswers == {"id", "no_id", "error"}

\* /progress: a status that is neither final, a request error, a status of
\* ["completed", "done", "finished", "ready"], a status of ["failed", "error"]
PollAnswers == {"running", "error", "completed", "failed"}

\* /snapshot: a list of posts, an empty list, a request error
DeliveryAnswers == {"posts", "empty", "error"}

PollLists == UNION { [1..n -> PollAnswers] : n \in 0..MaxPolls }

\* trigger_data_collection: the snapshot id, or None
trigger_data_collection(answer) == IF answer = "id" THEN "snapshot" ELSE "None"

\* get_delivery_data: response.json(), or None after a request error
get_delivery_data(answer) == IF answer = "error" THEN "None" ELSE answer

\* a test that only None fails
IsNone(value) == value = "None"

\* "not value" of Python: None, the empty string and the empty list are false
Not(value) == value \in {"None", "", "empty"}

NoScrape == [status |-> "", error |-> "", posts |-> ""]

ScraperIdle ==
    /\ fb_pc = "idle"
    /\ fb_key = TRUE
    /\ fb_trigger = "id"
    /\ fb_polls = <<>>
    /\ fb_delivery = "posts"
    /\ fb_poll = 0
    /\ fb_calls = <<>>
    /\ fb_result = NoScrape

ScraperFrame ==
    /\ UNCHANGED <<fb_key, fb_trigger, fb_polls, fb_delivery>>
    /\ UNCHANGED coreVars
    /\ AgFrame("fb")

\* scrape_facebook_posts without BRIGHT_DATA_API_KEY
ScrapeWithoutKey ==
    /\ fb_pc = "start"
    /\ ~fb_key
    /\ fb_result' = [status |-> "failed", error |-> "BRIGHT_DATA_API_KEY not configured",
                     posts |-> ""]
    /\ fb_pc' = "done"
    /\ UNCHANGED <<fb_poll, fb_calls>>
    /\ ScraperFrame

\* Step 1 and the return after it
TriggerDataCollection ==
    /\ fb_pc = "start"
    /\ fb_key
    /\ fb_calls' = Append(fb_calls, "trigger")
    /\ IF Not(trigger_data_collection(fb_trigger))
       THEN /\ fb_result' = [status |-> "failed", error |-> "Failed to trigger data collection",
                             posts |-> ""]
            /\ fb_pc' = "done"
       ELSE /\ fb_pc' = "monitor"
            /\ UNCHANGED fb_result
    /\ UNCHANGED fb_poll
    /\ ScraperFrame

\* Step 2: monitor_progress is called
MonitorProgress ==
    /\ fb_pc = "monitor"
    /\ fb_calls' = Append(fb_calls, "monitor")
    /\ fb_pc' = "polling"
    /\ UNCHANGED <<fb_poll, fb_result>>
    /\ ScraperFrame

\* one turn of the while loop of monitor_progress: a final status ends it
\* (a failed one with the return of scrape_facebook_posts), any other status
\* and a request error sleep and go round
Poll ==
    /\ fb_pc = "polling"
    /\ fb_poll < Len(fb_polls)
    /\ fb_poll' = fb_poll + 1
    /\ LET answer == fb_polls[fb_poll + 1] IN
       CASE answer = "completed" -> fb_pc' = "delivery" /\ UNCHANGED fb_result
         [] answer = "failed" ->
               /\ fb_pc' = "done"
               /\ fb_result' = [status |-> "failed",
                                error |-> "Data collection failed or timed out", posts |-> ""]
         [] OTHER -> fb_pc' = "polling" /\ UNCHANGED fb_result
    /\ UNCHANGED fb_calls
    /\ ScraperFrame

\* max_wait_time is over: monitor_progress returns False
PollTimeout ==
    /\ fb_pc = "polling"
    /\ fb_poll = Len(fb_polls)
    /\ fb_pc' = "done"
    /\ fb_result' = [status |-> "failed", error |-> "Data collection failed or timed out",
                     posts |-> ""]
    /\ UNCHANGED <<fb_poll, fb_calls>>
    /\ ScraperFrame

\* Step 3 and the end of scrape_facebook_posts
GetDeliveryData ==
    /\ fb_pc = "delivery"
    /\ fb_calls' = Append(fb_calls, "delivery")
    /\ LET posts_data == get_delivery_data(fb_delivery) IN
       fb_result' = IF Not(posts_data)
                    THEN [status |-> "failed", error |-> "Failed to retrieve scraped data",
                          posts |-> ""]
                    ELSE [status |-> "success", error |-> "", posts |-> posts_data]
    /\ fb_pc' = "done"
    /\ UNCHANGED fb_poll
    /\ ScraperFrame

----------------------------------------------------------------------------
(* BrandImageGenerator.process, the step that ensures contrast between the   *)
(* background colour and the text colour before the images are drawn.  A     *)
(* colour is the sequence of the six hexadecimal digits after the "#".       *)

\* the two hexadecimal digits of a channel: 00, 56, 80, 83, ff
HexBytes == {<<0, 0>>, <<5, 6>>, <<8, 0>>, <<8, 3>>, <<15, 15>>}

HexColors == { r \o g \o b : r \in HexBytes, g \in HexBytes, b \in HexBytes }

\* "#000000" and "#FFFFFF"
Black == <<0, 0, 0, 0, 0, 0>>
White == <<15, 15, 15, 15, 15, 15>>

\* hex_to_rgb: int(hex_color[i:i+2], 16) for i in (0, 2, 4)
hex_to_rgb(hex_color) ==
    <<16 * hex_color[1] + hex_color[2],
      16 * hex_color[3] + hex_color[4],
      16 * hex_color[5] + hex_color[6]>>

\* sum(self.hex_to_rgb(color)), a number of 0..765
ChannelSum(color) ==
    LET rgb == hex_to_rgb(color) IN rgb[1] + rgb[2] + rgb[3]

RECURSIVE Pow2(_)
Pow2(n) == IF n = 0 THEN 1 ELSE 2 * Pow2(n - 1)

\* the binary exponent of the float s / 3, for s of 1..765: the e of -2..7
\* with 2^e <= s / 3 < 2^(e+1)
Exponent(s) ==
    CHOOSE e \in -2..7 : 3 * Pow2(e + 2) <= 4 * s /\ 4 * s < 3 * Pow2(e + 3)

\* The float s / 3 is the number of 53 significant bits nearest to the
\* quotient.  RoundingError(s) is that float minus the exact quotient, in
\* thirds of 2^-54: nothing when 3 divides s, otherwise a third of the last
\* place, 2^(e-52), upwards or downwards as the expansion 0.0101... or
\* 0.1010... of the fraction is cut after an even or an odd number of bits.
RoundingError(s) ==
    IF s % 3 = 0 THEN 0
    ELSE LET e == Exponent(s)
             even == (52 - e) % 2 = 0
             up == IF s % 3 = 1 THEN ~even ELSE even
         IN  IF up THEN Pow2(e + 2) ELSE 0 - Pow2(e + 2)

\* half the distance between 100.0 and the float below it, 2^-47, in thirds
\* of 2^-54
HalfPlaceBelow100 == 384

\* abs(bg_brightness - text_brightness) < 100 on the floats bg / 3 and
\* text / 3 of two channel sums: the difference of the two floats is exact up
\* to its own rounding, so sums less than 300 apart compare below 100, sums
\* more than 300 apart do not, and sums 300 apart compare below 100 when the
\* rounding errors of the two quotients put the difference nearer to the
\* float below 100.0 than to 100.0
TooSimilar(bg, text) ==
    LET hi == IF bg > text THEN bg ELSE text
        lo == IF bg > text THEN text ELSE bg
    IN  \/ hi - lo < 300
        \/ /\ hi - lo = 300
           /\ RoundingError(hi) - RoundingError(lo) < 0 - HalfPlaceBelow100

\* bg_brightness > 128: the float of a sum above 384 is above 128.0, that of
\* 384 is 128.0
BrightBackground(bg) == bg > 384

\* the text colour the images are drawn with
adjusted_text_color(bg_color, color) ==
    IF TooSimilar(ChannelSum(bg_color), ChannelSum(color))
    THEN IF BrightBackground(ChannelSum(bg_color)) THEN Black ELSE White
    ELSE color

ContrastIdle ==
    /\ ct_pc = "idle"
    /\ background_color = Black
    /\ text_color = White
    /\ ct_text = White

\* process, from the two colours of the colour kit to the colours in use
EnsureContrast ==
    /\ ct_pc = "start"
    /\ ct_text' = adjusted_text_color(background_color, text_color)
    /\ ct_pc' = "done"
    /\ UNCHANGED <<background_color, text_color>>
    /\ UNCHANGED coreVars
    /\ AgFrame("ct")

\* none of the agents' helpers was called, except those of component c
AgIdleExcept(c) ==
    /\ (c = "fd" \/ FounderIdle)
    /\ (c = "sl" \/ SocialIdle)
    /\ (c = "cc" \/ ConcurrentIdle)
    /\ (c = "ws" \/ SessionIdle)
    /\ (c = "fb" \/ ScraperIdle)
    /\ (c = "ct" \/ ContrastIdle)

AgIdle == AgIdleExcept("")

\* nothing outside the workflow and the factory has happened
ExtIdle ==
    /\ OpIdle
    /\ RetryIdle
    /\ JsonIdle
    /\ PipelineIdle
    /\ AgIdle

----------------------------------------------------------------------------
(* BrandWorkflowOrchestrator *)

\* the keys of workflow_results["phases"], in the order the code writes them
PhaseOrder == <<"business_intelligence", "design_analysis", "social_content",
                "instagram_prompts", "brand_images">>

\* the design and business agents called in the opposite order
PhaseAgentSwapped == <<"screenshot", "business", "content", "prompts", "images">>

\* the agent behind each phase, by its key in run_single_agent's agents dict
PhaseAgent == <<"business", "screenshot", "content", "prompts", "images">>

NumPhases == Len(PhaseOrder)

\* the agents dict of run_single_agent
AgentNames == {"screenshot", "business", "content", "prompts", "images"}

\* "completed" if "error" not in <result> else "failed"
PhaseStatus(rec) == IF rec.hasError THEN "failed" ELSE "completed"

\* a slot written by replacing the whole phases map
RecordSlotReplacing(ph, name, rec) ==
    <<[name |-> name, status |-> PhaseStatus(rec), data |-> rec]>>

\* workflow_results["phases"][name] = {"status": ..., "data": result}
RecordSlot(ph, name, rec) ==
    IF \E i \in 1..Len(ph) : ph[i].name = name
    THEN [i \in 1..Len(ph) |->
             IF ph[i].name = name
             THEN [name |-> name, status |-> PhaseStatus(rec), data |-> rec]
             ELSE ph[i]]
    ELSE Append(ph, [name |-> name, status |-> PhaseStatus(rec), data |-> rec])

\* [k for k, v in workflow_results["phases"].items() if v["status"] == "failed"]
RECURSIVE FailedPhases(_)
FailedPhases(ph) ==
    IF ph = <<>> THEN <<>>
    ELSE (IF Head(ph).status = "failed" THEN <<Head(ph).name>> ELSE <<>>)
         \o FailedPhases(Tail(ph))

\* a final status that ignores the failed slots
FinalStatusIgnoringFailures(ph) == "completed"

\* the final status: "completed" if not failed_phases else "completed_with_errors"
FinalStatus(ph) ==
    IF FailedPhases(ph) = <<>> THEN "completed" ELSE "completed_with_errors"

\* the outcomes of self.<agent>.process(url, ...) for phase i, with the
\* arguments run_complete_workflow passes
AgentOutcomes(i) ==
    CASE i = 1 -> BusinessProcess
      [] i = 2 -> ScreenshotProcess
      [] i = 3 -> SocialContentProcess(business_intel, design_analysis)
      [] i = 4 -> InstagramPromptProcess(social_content)
      [] OTHER -> BrandImageProcess(instagram_prompts, design_file)

NoOutcome == [type |-> "none", rec |-> NoneRec, msg |-> "", saved |-> FALSE]

\* the results and the locals after phase i returned rec
StoreLocals(i, rec) ==
    /\ business_intel' = IF i = 1 THEN rec ELSE business_intel
    /\ design_analysis' = IF i = 2 THEN rec ELSE design_analysis
    /\ social_content' = IF i = 3 THEN rec ELSE social_content
    /\ instagram_prompts' = IF i = 4 THEN rec ELSE instagram_prompts

\* an agent that saved its output: the screenshot analyzer's save_json writes
\* the design-analysis file that the image generator later looks for
FileAfter(agent, o) == design_file \/ (agent = "screenshot" /\ o.saved)

\* run_complete_workflow is called: workflow_results is created
RunCompleteWorkflow(cp) ==
    /\ pc = "idle"
    /\ pc' = "ready"
    /\ k' = 1
    /\ custom_prompts' = cp
    /\ workflow_status' = "in_progress"
    /\ phases' = <<>>
    /\ UNCHANGED <<error, failed_phases, calls, business_intel, design_analysis,
                   social_content, instagram_prompts, design_file, single_call, single_result>>
    /\ UNCHANGED facVars
    /\ UNCHANGED extVars

\* a handler that records the message and leaves the status alone
OnExceptionKeepingStatus(msg) ==
    /\ workflow_status' = workflow_status
    /\ error' = msg
    /\ pc' = "returned"
    /\ UNCHANGED <<k, custom_prompts, phases, failed_phases>>

\* a handler that logs the exception and goes on with the next phase
OnExceptionContinuing(msg) ==
    /\ workflow_status' = workflow_status
    /\ error' = msg
    /\ pc' = IF k < 5 THEN "ready" ELSE "returned"
    /\ k' = IF k < 5 THEN k + 1 ELSE k
    /\ UNCHANGED <<custom_prompts, phases, failed_phases>>

\* except Exception as e: the handler of the one try block around all phases
OnException(msg) ==
    /\ workflow_status' = "failed"
    /\ error' = msg
    /\ pc' = "returned"
    /\ UNCHANGED <<k, custom_prompts, phases, failed_phases>>

\* custom_prompts.get(...) before phases 1..4: raises when custom_prompts is
\* truthy and has no get (custom_prompts = custom_prompts or {} kept it)
PromptLookupRaises ==
    /\ pc = "ready"
    /\ k < NumPhases
    /\ custom_prompts = "other"
    /\ OnException("AttributeError: no attribute 'get'")
    /\ UNCHANGED <<calls, business_intel, design_analysis, social_content,
                   instagram_prompts, design_file, single_call, single_result>>
    /\ UNCHANGED facVars
    /\ UNCHANGED extVars

\* self.<agent>.process(url, ...) of phase k is called
StartPhase ==
    /\ pc = "ready"
    /\ k < NumPhases => custom_prompts # "other"
    /\ pc' = "running"
    /\ calls' = Append(calls, PhaseAgent[k])
    /\ UNCHANGED <<k, custom_prompts, workflow_status, phases, error, failed_phases,
                   business_intel, design_analysis, social_content,
                   instagram_prompts, design_file, single_call, single_result>>
    /\ UNCHANGED facVars
    /\ UNCHANGED extVars

\* the agent of a phase before the last returned: its slot is written and the
\* workflow goes on to the next phase
PhaseReturns ==
    /\ pc = "running"
    /\ k < NumPhases
    /\ \E o \in AgentOutcomes(k) :
          /\ o.type = "return"
          /\ phases' = RecordSlot(phases, PhaseOrder[k], o.rec)
          /\ StoreLocals(k, o.rec)
          /\ design_file' = FileAfter(PhaseAgent[k], o)
    /\ k' = k + 1
    /\ pc' = "ready"
    /\ UNCHANGED <<custom_prompts, workflow_status, error, failed_phases, calls,
                   single_call, single_result>>
    /\ UNCHANGED facVars
    /\ UNCHANGED extVars

\* the agent of the last phase returned: its slot is written, the final status
\* is computed and workflow_results is returned
LastPhaseReturns ==
    /\ pc = "running"
    /\ k = NumPhases
    /\ \E o \in AgentOutcomes(k) :
          /\ o.type = "return"
          /\ LET ph == RecordSlot(phases, PhaseOrder[k], o.rec) IN
                /\ phases' = ph
                /\ workflow_status' = FinalStatus(ph)
                /\ failed_phases' = FailedPhases(ph)
          /\ design_file' = FileAfter(PhaseAgent[k], o)
    /\ pc' = "returned"
    /\ UNCHANGED <<k, custom_prompts, error, calls, business_intel, design_analysis,
                   social_content, instagram_prompts, single_call, single_result>>
    /\ UNCHANGED facVars
    /\ UNCHANGED extVars

\* the agent of phase k raised: the exception leaves the try block
PhaseRaises ==
    /\ pc = "running"
    /\ \E o \in AgentOutcomes(k) :
          /\ o.type = "raise"
          /\ OnException(o.msg)
    /\ UNCHANGED <<calls, business_intel, design_analysis, social_content,
                   instagram_prompts, design_file, single_call, single_result>>
    /\ UNCHANGED facVars
    /\ UNCHANGED extVars

\* the names the command line offers for --agent besides "complete"
CliAgentChoices == AgentNames \cup {"founders"}

\* the agents up to and including the named one, in pipeline order
UpstreamChain(name) ==
    CASE name = "business" -> <<"business">>
      [] name = "screenshot" -> <<"screenshot">>
      [] name = "content" -> <<"business", "screenshot", "content">>
      [] name = "prompts" -> <<"business", "screenshot", "content", "prompts">>
      [] OTHER -> <<"business", "screenshot", "content", "prompts", "images">>

\* run_single_agent: agent = agents[agent_name]; return agent.process(url, **kwargs).
\* The agents whose process() it calls, in call order.
SingleAgentChain(name) == <<name>>

\* what the named agent's process() does with the keyword arguments of the
\* caller: inp is the upstream record the caller passed, NoneRec if it passed none
SingleOutcomes(name, inp) ==
    CASE name = "business" -> BusinessProcess
      [] name = "screenshot" -> ScreenshotProcess
      [] name = "content" -> SocialContentProcess(inp, inp)
      [] name = "prompts" -> InstagramPromptProcess(inp)
      [] OTHER -> BrandImageProcess(inp, design_file)

\* run_single_agent(agent_name, url) for a name that is not in the agents dict
RunSingleAgentUnknown(name) ==
    /\ pc = "idle"
    /\ name \notin AgentNames
    /\ pc' = "single_raised"
    /\ single_call' = [name |-> name, inp |-> NoneRec]
    /\ single_result' = Raises("Unknown agent")
    /\ UNCHANGED <<k, custom_prompts, workflow_status, phases, error, failed_phases,
                   calls, business_intel, design_analysis, social_content,
                   instagram_prompts, design_file>>
    /\ UNCHANGED facVars
    /\ UNCHANGED extVars

\* run_single_agent(agent_name, url, **kwargs) for a known agent
RunSingleAgent(name, inp) ==
    /\ pc = "idle"
    /\ name \in AgentNames
    /\ single_call' = [name |-> name, inp |-> inp]
    /\ calls' = SingleAgentChain(name)
    /\ \E o \in SingleOutcomes(name, inp) :
          /\ single_result' = o
          /\ pc' = IF o.type = "raise" THEN "single_raised" ELSE "single_returned"
          /\ design_file' = FileAfter(name, o)
    /\ UNCHANGED <<k, custom_prompts, workflow_status, phases, error, failed_phases,
                   business_intel, design_analysis, social_content, instagram_prompts>>
    /\ UNCHANGED facVars
    /\ UNCHANGED extVars

Init ==
    /\ pc = "idle"
    /\ k = 0
    /\ custom_prompts = "None"
    /\ workflow_status = "none"
    /\ phases = <<>>
    /\ error = NoError
    /\ failed_phases = <<>>
    /\ calls = <<>>
    /\ business_intel = NoneRec
    /\ design_analysis = NoneRec
    /\ social_content = NoneRec
    /\ instagram_prompts = NoneRec
    /\ design_file \in BOOLEAN
    /\ single_call = [name |-> "", inp |-> NoneRec]
    /\ single_result = NoOutcome
    /\ env_pref = DefaultPref
    /\ credentials = {"claude"}
    /\ factory_result = NoFactoryCall
    /\ ExtIdle

Next ==
    \/ \E cp \in {"None", "dict", "other"} : RunCompleteWorkflow(cp)
    \/ PromptLookupRaises
    \/ StartPhase
    \/ PhaseReturns
    \/ LastPhaseReturns
    \/ PhaseRaises
    \/ \E name \in CliAgentChoices : RunSingleAgentUnknown(name)
    \/ \E name \in AgentNames, inp \in {NoneRec, Rec(FALSE, MaxPosts)} : RunSingleAgent(name, inp)

Spec == Init /\ [][Next]_vars

\* every call runs to its end: agent calls return or raise, nothing waits forever
FairSpec == Spec /\ WF_vars(Next)

\* the factory in any environment: any preference values, any set of API keys
FactoryInit ==
    /\ pc = "idle"
    /\ k = 0
    /\ custom_prompts = "None"
    /\ workflow_status = "none"
    /\ phases = <<>>
    /\ error = NoError
    /\ failed_phases = <<>>
    /\ calls = <<>>
    /\ business_intel = NoneRec
    /\ design_analysis = NoneRec
    /\ social_content = NoneRec
    /\ instagram_prompts = NoneRec
    /\ design_file = FALSE
    /\ single_call = [name |-> "", inp |-> NoneRec]
    /\ single_result = NoOutcome
    /\ env_pref \in [Capabilities -> PrefValues]
    /\ env_pref["image_analysis"] = "claude"
    /\ credentials \in SUBSET ProviderNames
    /\ factory_result = NoFactoryCall
    /\ ExtIdle

FactoryNext ==
    \/ \E capability \in Capabilities : GetConfiguredProvider(capability)
    \/ \E capability \in Capabilities : GetDefaultProvider(capability)

FactorySpec == FactoryInit /\ [][FactoryNext]_vars

\* providers made by create_provider and the operations called on them
ProviderInit ==
    /\ pc = "idle"
    /\ k = 0
    /\ custom_prompts = "None"
    /\ workflow_status = "none"
    /\ phases = <<>>
    /\ error = NoError
    /\ failed_phases = <<>>
    /\ calls = <<>>
    /\ business_intel = NoneRec
    /\ design_analysis = NoneRec
    /\ social_content = NoneRec
    /\ instagram_prompts = NoneRec
    /\ design_file = FALSE
    /\ single_call = [name |-> "", inp |-> NoneRec]
    /\ single_result = NoOutcome
    /\ env_pref = DefaultPref
    /\ credentials \in SUBSET ProviderNames
    /\ factory_result = NoFactoryCall
    /\ ExtIdle

ProviderNext ==
    \/ \E name \in PrefValues, model \in {"", "gpt-4o"} : CreateProvider(name, model)
    \/ \E op \in Operations : CallOperation(op)
    \/ AgentCreatesContentStrategy

ProviderSpec == ProviderInit /\ [][ProviderNext]_vars

\* the orchestrator was constructed and not called
WorkflowIdle ==
    /\ pc = "idle"
    /\ k = 0
    /\ custom_prompts = "None"
    /\ workflow_status = "none"
    /\ phases = <<>>
    /\ error = NoError
    /\ failed_phases = <<>>
    /\ calls = <<>>
    /\ business_intel = NoneRec
    /\ design_analysis = NoneRec
    /\ social_content = NoneRec
    /\ instagram_prompts = NoneRec
    /\ design_file = FALSE
    /\ single_call = [name |-> "", inp |-> NoneRec]
    /\ single_result = NoOutcome

\* the factory was not called; only CLAUDE_API_KEY is set
FactoryIdle ==
    /\ env_pref = DefaultPref
    /\ credentials = {"claude"}
    /\ factory_result = NoFactoryCall

\* analyze_website against an API that fails mock_n requests with mock_error
\* and answers every later one
RetryInit ==
    /\ WorkflowIdle
    /\ FactoryIdle
    /\ OpIdle
    /\ PipelineIdle
    /\ JsonIdle
    /\ AgIdle
    /\ rq_pc = "idle"
    /\ attempt = 0
    /\ inner_attempt = 0
    /\ posts = 0
    /\ mock_error \in ErrorKinds
    /\ mock_n \in 0..MaxFailures
    /\ rq_result = NoRqResult

RetryNext ==
    \/ AnalyzeWebsite
    \/ AnalyzeWebsiteNoPrompt
    \/ PostSucceeds
    \/ MakeRequestRetries
    \/ AnalyzeWebsiteRetries
    \/ AnalyzeWebsiteFailsFast
    \/ AnalyzeWebsiteExhausted

RetrySpec == RetryInit /\ [][RetryNext]_vars

\* JSON recovery of analyze_website, for every answer of the family
JsonInit ==
    /\ WorkflowIdle
    /\ FactoryIdle
    /\ OpIdle
    /\ PipelineIdle
    /\ RetryIdle
    /\ AgIdle
    /\ jr_parts \in [prefix : Prefixes, body : Bodies, suffix : Suffixes, fenced : BOOLEAN]
    /\ jr_step = 0
    /\ jr_span = <<>>
    /\ jr_result = NoJrResult

JsonNext ==
    \/ ExtractText
    \/ InvalidResponseStructure
    \/ TryStrategy(1)
    \/ TryStrategy(2)
    \/ TryStrategy(3)
    \/ TryStrategy(4)
    \/ TryStrategy(5)
    \/ TryStrategy(6)

JsonSpec == JsonInit /\ [][JsonNext]_vars

\* the data of one workflow run from phase 2 on
PipelineInit ==
    /\ pc = "idle"
    /\ k = 0
    /\ custom_prompts = "None"
    /\ workflow_status = "none"
    /\ phases = <<>>
    /\ error = NoError
    /\ failed_phases = <<>>
    /\ calls = <<>>
    /\ business_intel = NoneRec
    /\ design_analysis = NoneRec
    /\ social_content = NoneRec
    /\ instagram_prompts = NoneRec
    /\ design_file \in BOOLEAN
    /\ single_call = [name |-> "", inp |-> NoneRec]
    /\ single_result = NoOutcome
    /\ FactoryIdle
    /\ OpIdle
    /\ RetryIdle
    /\ JsonIdle
    /\ AgIdle
    /\ pl_pc = "design"
    /\ pl_design = NoDesign
    /\ pl_answer = ""
    /\ pl_content = NoContent
    /\ pl_prompts = <<>>
    /\ pl_images = <<>>
    /\ pl_error = ""

PipelineNext ==
    \/ DesignAnalysis
    \/ ContentRequestFails
    \/ \E ps \in PostLists, g \in GuidelineChoices(pl_design) : ContentStrategy("object", ps, g)
    \/ \E answer \in {"prose", "list"} : ContentStrategy(answer, <<>>, [key |-> "", hex |-> ""])
    \/ GeneratePrompts
    \/ StartImages
    \/ \E ok \in BOOLEAN : RenderImage(ok)

PipelineSpec == PipelineInit /\ [][PipelineNext]_vars

\* everything but the agents' helpers is as constructed
CoreIdle ==
    /\ WorkflowIdle
    /\ FactoryIdle
    /\ OpIdle
    /\ RetryIdle
    /\ JsonIdle
    /\ PipelineIdle

\* the founders of one business-intelligence analysis
FounderInit ==
    /\ CoreIdle
    /\ AgIdleExcept("fd")
    /\ fd_pc = "start"
    /\ fd_status \in SiteStatuses
    /\ fd_html = ""
    /\ fd_existing \in FounderLists(ExistingNames, "existing")
    /\ fd_page \in FounderLists(PageNames, "enhanced")
    /\ fd_about \in BOOLEAN
    /\ fd_result = NoFounderResult

FounderNext ==
    \/ MergeFounderData
    \/ FetchWebsiteContent
    \/ Process

FounderSpec == FounderInit /\ [][FounderNext]_vars

\* the social links of one page
SocialInit ==
    /\ CoreIdle
    /\ AgIdleExcept("sl")
    /\ sl_pc = "start"
    /\ sl_links \in SourceLists(AnchorMatches)
    /\ sl_metas \in SourceLists(MetaNames)
    /\ sl_result = <<>>

SocialNext ==
    \/ ExtractSocialMediaLinks
    \/ ExtractSocialMediaLinksFails

SocialSpec == SocialInit /\ [][SocialNext]_vars

\* two requests arrive; each asks for a provider of its own choice
ConcurrentInit ==
    /\ WorkflowIdle
    /\ OpIdle
    /\ RetryIdle
    /\ JsonIdle
    /\ PipelineIdle
    /\ AgIdleExcept("cc")
    /\ env_pref = DefaultPref
    /\ credentials = ServerCredentials
    /\ factory_result = NoFactoryCall
    /\ cc_pc = [i \in Invocations |-> "request"]
    /\ cc_request \in [Invocations -> RequestProviders]
    /\ cc_provider = [i \in Invocations |-> ""]
    /\ temp_file = NoFile
    /\ cc_overwrote = [i \in Invocations |-> NoFile]
    /\ cc_analyzed = [i \in Invocations |-> NoFile]
    /\ cc_removed = [i \in Invocations |-> NoFile]

ConcurrentNext ==
    \E i \in Invocations :
        \/ Analyze(i)
        \/ InitializeOrchestrator(i)
        \/ CaptureScreenshot(i)
        \/ CaptureFails(i)
        \/ AnalyzeScreenshot(i)
        \/ Cleanup(i)

ConcurrentSpec == ConcurrentInit /\ [][ConcurrentNext]_vars

\* the front end after start-up, before any request
SessionInit ==
    /\ CoreIdle
    /\ AgIdleExcept("ws")
    /\ ws_status = [s \in Sessions |-> "absent"]
    /\ ws_pc = [s \in Sessions |-> "new"]
    /\ ws_page = [s \in Sessions |-> NoPage]

SessionNext ==
    \E s \in Sessions :
        \/ AnalyzeSession(s)
        \/ ThreadAdvances(s)
        \/ ThreadFails(s)
        \/ \E status \in StoredStatuses : WorkflowStored(s, status)
        \/ Results(s)

SessionSpec == SessionInit /\ [][SessionNext]_vars

\* one call of scrape_facebook_posts, for every behaviour of the API
ScraperInit ==
    /\ CoreIdle
    /\ AgIdleExcept("fb")
    /\ fb_pc = "start"
    /\ fb_key \in BOOLEAN
    /\ fb_trigger \in TriggerAnswers
    /\ fb_polls \in PollLists
    /\ fb_delivery \in DeliveryAnswers
    /\ fb_poll = 0
    /\ fb_calls = <<>>
    /\ fb_result = NoScrape

ScraperNext ==
    \/ ScrapeWithoutKey
    \/ TriggerDataCollection
    \/ MonitorProgress
    \/ Poll
    \/ PollTimeout
    \/ GetDeliveryData

ScraperSpec == ScraperInit /\ [][ScraperNext]_vars

----------------------------------------------------------------------------
(* The contrast step of BrandImageGenerator.process on every pair of colours *)

ContrastInit ==
    /\ CoreIdle
    /\ AgIdleExcept("ct")
    /\ ct_pc = "start"
    /\ background_color \in HexColors
    /\ text_color \in HexColors
    /\ ct_text = text_color

ContrastNext == EnsureContrast

ContrastSpec == ContrastInit /\ [][ContrastNext]_vars

----------------------------------------------------------------------------
(* Claims about run_complete_workflow and run_single_agent *)

InWorkflow == pc \in {"ready", "running", "returned"}

TerminalStatuses == {"completed", "completed_with_errors", "failed"}

\* the names of the slots of ph whose status is "failed", in pipeline order
FailedSlotNames(ph) ==
    SelectSeq(<<"business_intelligence", "design_analysis", "social_content",
                "instagram_prompts", "brand_images">>,
              LAMBDA n : \E i \in 1..Len(ph) : ph[i].name = n /\ ph[i].status = "failed")

\* C1: when run_complete_workflow gets past phase 5, workflow_status is
\* "completed" iff no slot has status "failed"; otherwise it is
\* "completed_with_errors" and failed_phases lists exactly the failed slots'
\* names in phase order.
C1_FinalStatusAggregates ==
    (pc = "returned" /\ Len(phases) = 5) =>
        /\ (workflow_status = "completed") <=> (FailedSlotNames(phases) = <<>>)
        /\ (workflow_status # "completed") => (workflow_status = "completed_with_errors")
        /\ failed_phases = FailedSlotNames(phases)

C1_Witness ==
    /\ pc = "returned"
    /\ Len(phases) = 5
    /\ workflow_status = "completed_with_errors"
    /\ failed_phases = <<"business_intelligence", "design_analysis">>

\* C2 (as claimed): when the agent of a phase raises, the orchestrator records
\* the phase as failed in its slot and goes on; so every workflow whose first
\* agent was called ends with all five slots and is never aborted as "failed".
C2_PhaseExceptionRecorded ==
    (pc = "returned" /\ calls # <<>>) =>
        /\ Len(phases) = 5
        /\ workflow_status # "failed"

IsPrefix(s, t) == Len(s) <= Len(t) /\ \A i \in 1..Len(s) : s[i] = t[i]

\* C4: the agents are called in the order business, design, content, prompts,
\* images; phase N+1 is not started before the slot of phase N is written;
\* at most one phase is in progress.
C4_PhasesSequential ==
    InWorkflow =>
        /\ IsPrefix(calls, <<"business", "screenshot", "content", "prompts", "images">>)
        /\ IsPrefix([i \in 1..Len(phases) |-> phases[i].name],
                    <<"business_intelligence", "design_analysis", "social_content",
                      "instagram_prompts", "brand_images">>)
        /\ Len(phases) <= Len(calls)
        /\ Len(calls) <= Len(phases) + 1
        /\ (pc = "ready") => (Len(calls) = Len(phases))
        /\ (pc = "running") => (Len(calls) = Len(phases) + 1)

C4_Witness ==
    /\ pc = "running"
    /\ calls = <<"business", "screenshot", "content", "prompts", "images">>
    /\ Len(phases) = 4

\* C5 (as claimed): once a phase is recorded as failed, every later phase is
\* still run and gets its own slot, so the returned record has all five slots.
C5_LaterPhasesGetSlots ==
    (pc = "returned" /\ \E i \in 1..Len(phases) : phases[i].status = "failed") =>
        Len(phases) = 5

\* C6: during a run the phases map only grows: a written slot is never
\* removed or changed and no agent is called twice; a run that fails in a
\* late phase still returns the slots written before.
C6_PhasesAppendOnly ==
    [][ InWorkflow =>
          /\ IsPrefix(phases, phases')
          /\ Len(phases') <= Len(phases) + 1
          /\ \A i, j \in 1..Len(calls') : calls'[i] = calls'[j] => i = j
          /\ \A i \in 1..Len(phases') :
                i < 5 => phases'[i].data = <<business_intel', design_analysis',
                                            social_content', instagram_prompts'>>[i]
      ]_vars

C6_Witness ==
    /\ pc = "returned"
    /\ workflow_status = "failed"
    /\ Len(phases) = 4
    /\ phases[2].status = "failed"
    /\ phases[2].data = design_analysis

\* C7: a record is created as in_progress, every call ends by returning, and
\* a returned record's status is completed, completed_with_errors or failed.
C7_AlwaysTerminalStatus ==
    /\ [](pc = "returned" => workflow_status \in TerminalStatuses)
    /\ [][(pc = "idle" /\ pc' = "ready") => workflow_status' = "in_progress"]_vars
    /\ ((pc \in {"ready", "running"}) ~> (pc = "returned"))

C7_Witness ==
    /\ pc = "returned"
    /\ workflow_status = "completed"
    /\ Len(phases) = 5

SingleDone == pc \in {"single_returned", "single_raised"}

\* C8 (as claimed): run_single_agent runs the agents the requested one
\* depends on, in pipeline order, and then the requested one.
C8_RunsDependencyChain ==
    (SingleDone /\ single_call.name \in AgentNames) =>
        calls = UpstreamChain(single_call.name)

\* C8 (amended): run_single_agent calls process() of the named agent only,
\* with the caller's keyword arguments; called without upstream data,
\* "content" and "images" raise and "prompts" returns an error record.
C8_RunsNamedAgentOnly ==
    (SingleDone /\ single_call.name \in AgentNames) =>
        /\ calls = <<single_call.name>>
        /\ phases = <<>>
        /\ (single_call.inp = NoneRec /\ single_call.name \in {"content", "images"})
              => pc = "single_raised"
        /\ (single_call.inp = NoneRec /\ single_call.name = "prompts")
              => (pc = "single_returned" /\ single_result.rec.hasError)

C8_Witness ==
    /\ pc = "single_raised"
    /\ single_call = [name |-> "images", inp |-> NoneRec]
    /\ calls = <<"images">>
    /\ single_result.msg = "prompts_data is required"

----------------------------------------------------------------------------
(* Claims about AIProviderFactory *)

\* provider p can be constructed and declares capability c
Qualifies(p, c) ==
    /\ p \in {"claude", "gemini", "openai"}
    /\ p \in credentials
    /\ c \in ProviderCapabilities(p)

\* the first element of seq that qualifies for c, "" if none does
FirstQualifying(seq, c) ==
    LET idx == {i \in 1..Len(seq) : Qualifies(seq[i], c)} IN
    IF idx = {} THEN ""
    ELSE seq[CHOOSE i \in idx : \A j \in idx : i <= j]

\* C9: for a capability other than image generation, get_configured_provider
\* returns the first provider of <preferred> followed by the capability's
\* priority list that can be constructed and declares the capability, and
\* raises iff none qualifies; a returned provider declares the capability.
C9_FirstQualifyingProvider ==
    (factory_result.via = "configured" /\ factory_result.capability # "image_generation") =>
        LET c == factory_result.capability
            seq == <<PreferredProvider(c)>> \o CapabilityPriorities(c)
            first == FirstQualifying(seq, c)
            r == factory_result.result
        IN /\ (r.kind = "error") <=> (first = "")
           /\ (r.kind = "provider") =>
                 /\ r.name = first
                 /\ r.model = DefaultModel(first)
                 /\ c \in ProviderCapabilities(r.name)

\* the preferred provider is credentialed but lacks the capability, and the
\* second entry of the priority list is the first that qualifies
C9_Witness ==
    /\ factory_result.via = "configured"
    /\ factory_result.capability = "web_analysis"
    /\ env_pref["web_analysis"] = "gemini"
    /\ credentials = {"gemini", "openai"}
    /\ factory_result.result = ProviderOf("openai", "gpt-4")

\* C10: for image generation both factory methods return gemini with model
\* gemini-2.5-flash-image-preview whatever the preferences are and whichever
\* other providers have keys; without a Gemini key they raise and return no
\* other provider.
C10_ImageGenerationForced ==
    (factory_result.via # "none" /\ factory_result.capability = "image_generation") =>
        /\ ("gemini" \in credentials) =>
              factory_result.result =
                  [kind |-> "provider", name |-> "gemini", model |-> "gemini-2.5-flash-image-preview"]
        /\ ("gemini" \notin credentials) => factory_result.result.kind = "error"
        /\ ConfigAiProviders["image_generation"] = "gemini"

C10_Witness ==
    /\ factory_result.via = "configured"
    /\ factory_result.capability = "image_generation"
    /\ env_pref["image_generation"] = "openai"
    /\ credentials = {"claude", "gemini", "openai"}
    /\ factory_result.result.name = "gemini"

----------------------------------------------------------------------------
(* Claims about the providers' capability operations *)

\* C11: an operation whose capability the provider does not declare raises
\* NotImplementedError "<provider> does not support <capability>"; it never
\* returns.
C11_UnsupportedOperationRaises ==
    (op_call # NoOpCall /\ OperationCapability(op_call.op) \notin ProviderCapabilities(op_call.provider)) =>
        /\ op_result.kind = "raise"
        /\ op_result.value = "NotImplementedError"
        /\ op_result.provider = op_call.provider
        /\ op_result.what = OperationLabel(op_call.op)

C11_Witness ==
    /\ op_call = [provider |-> "gemini", op |-> "analyze_website"]
    /\ op_result = [kind |-> "raise", value |-> "NotImplementedError",
                    provider |-> "gemini", what |-> "web analysis"]

----------------------------------------------------------------------------
(* Claims about the request loop of analyze_website *)

\* the request loop ran (the call did not stop at the missing .md file)
RequestLoopDone == rq_pc = "done" /\ posts > 0

\* C12 (as claimed): against an API that fails exactly N requests with an
\* error the loop treats as retryable and then succeeds, analyze_website gets
\* its response iff N < 6, and otherwise raises that error.
C12_SucceedsIffBelowMaxRetries ==
    (RequestLoopDone /\ is_retryable(mock_error)) =>
        /\ (rq_result.kind = "return") <=> (mock_n < 6)
        /\ (mock_n >= 6) => (rq_result = [kind |-> "raise", error |-> mock_error])

\* the errors the retry policy calls retryable: HTTP 5xx (529 included), 429,
\* timeout, connection reset
PolicyRetryable(e) ==
    e \in {"http529", "http500", "http503", "http429", "timeout", "connection_reset"}

\* C13 (as claimed): a failed request is followed by another request iff its
\* error is in the retryable class and attempts remain (fewer than 6 requests
\* were made); a non-retryable error is raised after the one request.
C13_RetryIffRetryable ==
    [][ (rq_pc = "post" /\ posts' = posts + 1 /\ posts + 1 <= mock_n) =>
            ((rq_pc' = "post") <=> (PolicyRetryable(mock_error) /\ posts + 1 < 6))
      ]_vars

----------------------------------------------------------------------------
(* Claims about JSON recovery in analyze_website *)

\* recovery of the text of the answer was left, by return or by exception
RecoveryDone == jr_step = 7 /\ jr_result.via # 0

\* C14 (as claimed): for every text recovery returns and never raises; what
\* it returns comes from the first strategy, in the order 1..5, that
\* succeeds, and when none does it is the fallback record with the raw text
\* and a parsing-error marker.
C14_RecoveryNeverRaises ==
    RecoveryDone =>
        /\ jr_result.kind = "return"
        /\ \A n \in 1..5 : n < jr_result.via => StrategyOutcome(n, Text(jr_parts)).kind = "next"
        /\ (jr_result.via = 6) =>
              (jr_result.raw_analysis = Text(jr_parts) /\ jr_result.parsing_error # "")

\* the number of opening braces among the pieces of a text
RECURSIVE OpenBraces(_)
OpenBraces(toks) ==
    IF toks = <<>> THEN 0
    ELSE (IF Head(toks) = "{" THEN 1 ELSE 0) + OpenBraces(Tail(toks))

\* a text of prose, a JSON object with an object nested in it, and trailing
\* prose with a stray closing brace, on which Strategy 3 has run
NestedObjectInProse ==
    /\ jr_step > 3
    /\ jr_step = 7 => jr_result.via >= 3
    /\ jr_parts.prefix = <<"x">>
    /\ jr_parts.suffix = <<"x", "}", "x">>
    /\ ~jr_parts.fenced
    /\ json_loads(jr_parts.body).ok
    /\ json_loads(jr_parts.body).val.t = "dict"
    /\ OpenBraces(jr_parts.body) >= 2

\* C15 (as claimed): on such a text the brace-counting strategy cuts out
\* exactly the JSON object, neither less nor more.
C15_BraceSpanIsOuterObject ==
    NestedObjectInProse => jr_span = jr_parts.body

\* the whole answer is valid JSON, bare or inside a json fence
AnswerIsJson ==
    /\ RecoveryDone
    /\ jr_parts.prefix = <<>>
    /\ jr_parts.suffix = <<>>
    /\ json_loads(jr_parts.body).ok

----------------------------------------------------------------------------
(* Claims about the data handed from phase to phase *)

\* C17 (as claimed): when the AI answer cannot be turned into a structured
\* content strategy, the content agent raises and returns no record; it never
\* puts a canned strategy in its place.
C17_ContentAgentFailsLoudly ==
    (pl_answer \in {"prose", "list"}) =>
        /\ pl_pc = "raised"
        /\ pl_content = NoContent
        /\ pl_prompts = <<>>

\* C18 (as claimed): when the design agent returned brand_primary hex H, every
\* prompt of phase 4 has H in its text, never a default colour.
C18_DesignColorReachesPrompts ==
    (pl_pc \in {"images", "render", "done"} /\ pl_design.color # "") =>
        \A i \in 1..Len(pl_prompts) : pl_prompts[i].color = pl_design.color

C20_PostNumberStable ==
    (pl_pc \in {"render", "done"}) =>
        /\ \A j \in 1..Len(pl_prompts) :
              pl_prompts[j].post_number =
                  (IF pl_content.posts[pl_prompts[j].post] = 0
                   THEN pl_prompts[j].post ELSE pl_content.posts[pl_prompts[j].post])
        /\ \A i \in 1..Len(pl_images) :
              pl_images[i].post_number = pl_prompts[pl_images[i].prompt].post_number

----------------------------------------------------------------------------
(* Claims about the founders of the business-intelligence record *)

\* the normalized names of the founders of a list
NamesOf(founders) == { NormalizedName(founders[i]) : i \in 1..Len(founders) }

\* no two entries of a list have the same normalized name; an entry whose
\* name is null, missing or blank has no name
NoDuplicateNames(founders) ==
    \A i, j \in 1..Len(founders) :
        (i # j /\ founders[i].name # Null /\ NormalizedName(founders[i]) # <<>>)
            => NormalizedName(founders[i]) # NormalizedName(founders[j])

\* _merge_founder_data returned
MergeReturned == fd_pc = "done" /\ fd_result.via = "merge" /\ ~fd_result.raised

\* C21: merging an existing and an enhanced founder list yields exactly one
\* entry per distinct normalized (lower-cased, trimmed) name found in either
\* list, a name being a non-empty string (an entry whose name is missing,
\* empty or blank has no name and no entry); for a name in both lists the
\* entry kept is the one of the enhanced list; every entry kept is an entry
\* of the list it comes from.
C21_OneEntryPerName ==
    MergeReturned =>
        /\ NoDuplicateNames(fd_result.founders)
        /\ NamesOf(fd_result.founders) = (NamesOf(fd_existing) \cup NamesOf(fd_page)) \ {<<>>}
        /\ \A i \in 1..Len(fd_result.founders) :
              LET f == fd_result.founders[i] IN
              /\ NormalizedName(f) \in NamesOf(fd_page) => f.src = "enhanced"
              /\ f.src = "enhanced" => f.pos \in 1..Len(fd_page) /\ fd_page[f.pos] = f
              /\ f.src = "existing" => f.pos \in 1..Len(fd_existing) /\ fd_existing[f.pos] = f

\* [J, a] merged with [j + bio, b]: three entries, the one named j is the
\* enhanced one
C21_Witness ==
    /\ MergeReturned
    /\ Len(fd_existing) = 2 /\ Len(fd_page) = 2
    /\ fd_existing[1].name = <<"J">> /\ fd_existing[2].name = <<"a">>
    /\ fd_page[1].name = <<"j", " ">> /\ fd_page[2].name = <<"b">>
    /\ Len(fd_result.founders) = 3
    /\ \E i \in 1..3 : fd_result.founders[i].name = <<"j", " ">>
                       /\ fd_result.founders[i].src = "enhanced"

\* C22 (as claimed): in every record process returns, no two entries of the
\* founders list have the same normalized name, whether or not About pages
\* were found and whether or not the founder enhancement failed.
C22_ProcessFoundersUnique ==
    (fd_pc = "done" /\ fd_result.via = "process") => NoDuplicateNames(fd_result.founders)

----------------------------------------------------------------------------
(* Claims about extract_social_media_links *)

\* the sources of a page in scan order: the anchors, then the meta tags
ScanOrder == [i \in 1..(Len(sl_links) + Len(sl_metas)) |->
                 IF i <= Len(sl_links) THEN [src |-> "anchor", pos |-> i, matches |-> sl_links[i]]
                 ELSE [src |-> "meta", pos |-> i - Len(sl_links),
                       matches |-> sl_metas[i - Len(sl_links)]]]

\* the entry is made from the first source of the scan that matches its platform
FromFirstMatch(entry) ==
    \E i \in 1..Len(ScanOrder) :
        /\ ScanOrder[i].src = entry.src /\ ScanOrder[i].pos = entry.pos
        /\ entry.platform \in ScanOrder[i].matches
        /\ \A j \in 1..(i - 1) : entry.platform \notin ScanOrder[j].matches

\* at most one entry per platform
OnePerPlatform ==
    \A i, j \in 1..Len(sl_result) : i # j => sl_result[i].platform # sl_result[j].platform

\* C23 (as claimed): the list returned has at most one entry per platform,
\* and that entry comes from the first source in scan order (anchors in
\* document order, then og: meta tags) that matches the platform.
C23_FirstMatchWins ==
    (sl_pc = "done") =>
        /\ OnePerPlatform
        /\ \A i \in 1..Len(sl_result) : FromFirstMatch(sl_result[i])

\* the meta tag counts for its platform: it names it and no platform before
\* it in the table of patterns
MetaCountsFor(names, platform) ==
    \E p \in 1..Len(PlatformOrder) :
        PlatformOrder[p] = platform /\ FirstNamed(names, 1) = p

\* C23 (amended): the list returned has at most one entry per platform; an
\* anchor counts for every platform its href matches, an og:url meta tag only
\* for the first platform of the pattern table its content names; a
\* platform has an entry exactly when a source counts for it, and the entry
\* comes from the first such source in scan order (anchors in document
\* order, then meta tags).
C23_FirstCountedMatchWins ==
    (sl_pc = "done") =>
        /\ OnePerPlatform
        /\ \A p \in 1..Len(PlatformOrder) :
              LET platform == PlatformOrder[p]
                  anchors == { i \in 1..Len(sl_links) : platform \in sl_links[i] }
                  metas == { i \in 1..Len(sl_metas) : MetaCountsFor(sl_metas[i], platform) }
                  expected ==
                      IF anchors # {}
                      THEN { [platform |-> platform, src |-> "anchor",
                              pos |-> CHOOSE i \in anchors : \A j \in anchors : i <= j] }
                      ELSE IF metas # {}
                      THEN { [platform |-> platform, src |-> "meta",
                              pos |-> CHOOSE i \in metas : \A j \in metas : i <= j] }
                      ELSE {}
              IN { sl_result[i] : i \in { n \in 1..Len(sl_result) : sl_result[n].platform = platform } }
                     = expected

\* two anchors match the same platform and a meta tag names it again: the
\* entry is the one of the first anchor
C23_Witness ==
    /\ sl_pc = "done"
    /\ Len(sl_links) = 2
    /\ "twitter" \in sl_links[1] /\ "twitter" \in sl_links[2]
    /\ Len(sl_metas) >= 1 /\ sl_metas[1] = {"twitter"}
    /\ \E i \in 1..Len(sl_result) :
          sl_result[i] = [platform |-> "twitter", src |-> "anchor", pos |-> 1]

----------------------------------------------------------------------------
(* Claims about workflow invocations running at the same time *)

\* C24 (as claimed): two invocations running at the same time share no
\* mutable state: each analyzes only the screenshot it captured itself, none
\* overwrites or deletes the screenshot file of the other, and each resolves
\* its provider from the preference of its own request.
C24_InvocationsIsolated ==
    \A i \in Invocations :
        /\ cc_pc[i] \in {"cleanup", "done"} /\ cc_analyzed[i] # NoFile => cc_analyzed[i] = i
        /\ cc_pc[i] = "cleanup" => cc_analyzed[i] = i
        /\ cc_overwrote[i] \in {NoFile, i}
        /\ cc_removed[i] \in {NoFile, i}
        /\ cc_provider[i] # "" => cc_provider[i] = cc_request[i]

----------------------------------------------------------------------------
(* Claims about repeated calls of the factory *)

----------------------------------------------------------------------------
(* Claims about the fetch of the page *)

\* C26 (as claimed): when the site answers 403, the fetch of the
\* business-intelligence agent does not raise: it returns placeholder HTML,
\* and process goes on to return a record.
C26_ForbiddenIsDegraded ==
    (fd_status = 403 /\ fd_pc \in {"fetched", "done", "raised"} /\ fd_result.via # "merge") =>
        /\ fd_pc # "raised"
        /\ fd_html = "placeholder"

----------------------------------------------------------------------------
(* Claims about the results page *)

\* C27 (as claimed): the final results page is rendered only for a session
\* whose workflow reached a terminal status; a session that is starting,
\* initializing, running or analyzing gets the loading page.
C27_ResultsOnlyWhenTerminal ==
    \A s \in Sessions :
        /\ ws_page[s].page = "results" => ws_page[s].status \in StoredStatuses
        /\ (ws_page[s].page # "none" /\ ws_page[s].status \notin StoredStatuses \cup {"absent"})
              => ws_page[s].page = "loading"

----------------------------------------------------------------------------
(* Claims about declared capabilities *)

\* C28 (as claimed): a provider implements the operation of every capability
\* it declares: called on a provider that declares the capability, the
\* operation is the provider's own method, never the stub of the base class
\* (which returns None, or cannot take the arguments the agent passes).
C28_DeclaredCapabilityImplemented ==
    (op_call # NoOpCall /\ OperationCapability(op_call.op) \in ProviderCapabilities(op_call.provider)) =>
        /\ op_call.op \in Overrides(op_call.provider)
        /\ ~(op_result.kind = "return" /\ op_result.value = "None")
        /\ ~(op_result.kind = "raise" /\ op_result.value \in {"TypeError", "NotImplementedError"})

----------------------------------------------------------------------------
(* Claims about scrape_facebook_posts *)

\* the first final status among the answers to the polls, "timeout" if none
RECURSIVE FirstVerdict(_)
FirstVerdict(polls) ==
    IF polls = <<>> THEN "timeout"
    ELSE IF Head(polls) \in {"completed", "failed"} THEN Head(polls)
    ELSE FirstVerdict(Tail(polls))

\* the steps are attempted in order, and none after the first one that failed
StepsInOrder ==
    /\ \E n \in 0..3 : fb_calls = SubSeq(<<"trigger", "monitor", "delivery">>, 1, n)
    /\ (fb_key /\ fb_pc = "done") =>
          Len(fb_calls) = (IF fb_trigger # "id" THEN 1
                           ELSE IF FirstVerdict(fb_polls) # "completed" THEN 2
                           ELSE 3)
    /\ ~fb_key => fb_calls = <<>>

----------------------------------------------------------------------------
(* Claims about the contrast between background and text                     *)

\* three times the difference in mean brightness of two colours
BrightnessGap(c1, c2) ==
    LET s1 == ChannelSum(c1)
        s2 == ChannelSum(c2)
    IN  IF s1 > s2 THEN s1 - s2 ELSE s2 - s1

\* C30 (as claimed): after the contrast step the text colour in use and the
\* background differ in mean brightness by at least 100; a text colour less
\* than 100 away from the background was replaced by black on a background
\* brighter than 128 and by white otherwise; a text colour 100 or more away
\* is the one in use.
C30_ContrastEnsured ==
    ct_pc = "done" =>
        /\ BrightnessGap(background_color, ct_text) >= 300
        /\ BrightnessGap(background_color, text_color) < 300 =>
               ct_text = IF ChannelSum(background_color) > 384 THEN Black ELSE White
        /\ BrightnessGap(background_color, text_color) >= 300 =>
               ct_text = text_color

====
